---- MODULE Spec2Model ----
(***************************************************************************)
(* A state-machine model of the top-K backtest core of csxgb:              *)
(*   backtest_topk          (src/src/csxgb/backtest.py)                    *)
(*   backtest_topk, earlier (src/csxgb/backtest.py), names prefixed legacy *)
(* One action per outcome of a rebalance-date iteration of the loop, one   *)
(* for the function prologue and one for the code after the loop.          *)
(* Floating-point returns, turnovers and costs are exact rationals.        *)
(***************************************************************************)
EXTENDS Integers, Sequences, FiniteSets, TLC

(***************************************************************************)
(* Bounds of the explored inputs.                                          *)
(***************************************************************************)
MaxReb == 4
MaxHorizonReb == 3
MaxTopK == 2
MaxShift == 1
MaxHorizon == 2
MaxCostBps == 10
MaxDates == 4
Instruments == {"A", "B"}
DateUniverse == {1, 2, 3}
PriceLevels == {1, 2}

(***************************************************************************)
(* Values.  A missing price (NaN in the pivoted price table) is 0; every   *)
(* real price is a positive integer.  Python's None is the empty tuple and *)
(* a present value x is <<x>>.                                             *)
(***************************************************************************)
NaN == 0
None == <<>>
Some(x) == <<x>>
notna(p) == p # NaN
(* a float that is not a price: NaN or a number *)
nan == [kind |-> "nan"]
float(r) == [kind |-> "float", value |-> r]

Min(a, b) == IF a <= b THEN a ELSE b
Abs(a) == IF a < 0 THEN -a ELSE a

RECURSIVE GCD(_, _)
GCD(a, b) == IF b = 0 THEN a ELSE GCD(b, a % b)

(* Exact rationals [num, den] with den > 0, in lowest terms. *)
Rat(n, d) ==
    LET s == IF d < 0 THEN -1 ELSE 1
        g == GCD(Abs(n), Abs(d))
    IN  [num |-> (s * n) \div g, den |-> (s * d) \div g]
RInt(n) == [num |-> n, den |-> 1]
(* sums over the least common denominator *)
RAdd(x, y) ==
    LET g == GCD(x.den, y.den)
    IN  Rat(x.num * (y.den \div g) + y.num * (x.den \div g),
            (x.den \div g) * y.den)
RSub(x, y) ==
    LET g == GCD(x.den, y.den)
    IN  Rat(x.num * (y.den \div g) - y.num * (x.den \div g),
            (x.den \div g) * y.den)
RMul(x, y) == Rat(x.num * y.num, x.den * y.den)
RDiv(x, y) == Rat(x.num * y.den, x.den * y.num)
RAbs(x) == [num |-> Abs(x.num), den |-> x.den]
RLe(x, y) == x.num * y.den <= y.num * x.den
RLt(x, y) == x.num * y.den < y.num * x.den

RECURSIVE RSum(_, _)
(* Sum of f[s] over the finite set S. *)
RSum(f, S) ==
    IF S = {} THEN RInt(0)
    ELSE LET s == CHOOSE x \in S : TRUE
         IN  RAdd(f[s], RSum(f, S \ {s}))

Range(q) == {q[j] : j \in 1..Len(q)}
Last(q) == q[Len(q)]

RECURSIVE Perms(_)
Perms(S) ==
    IF S = {} THEN {<<>>}
    ELSE UNION {{<<x>> \o p : p \in Perms(S \ {x})} : x \in S}

RECURSIVE SortedSeq(_)
(* sorted(...) of a finite set of integers *)
SortedSeq(S) ==
    IF S = {} THEN <<>>
    ELSE LET m == CHOOSE x \in S : \A y \in S : x <= y
         IN  <<m>> \o SortedSeq(S \ {m})

SeqsUpTo(S, n) == UNION {[1..m -> S] : m \in 0..n}

(***************************************************************************)
(* The observation panel.  For a date d, data[d].rank lists the            *)
(* instruments that have a record on d in descending order of prediction   *)
(* score (the order DataFrame.nlargest returns them in), and               *)
(* data[d].price[s] is the price of s on d (NaN when s has no record on d  *)
(* or the record carries no price).  A date with no record is not a trade  *)
(* date.                                                                   *)
(***************************************************************************)
NoRecord == [rank |-> <<>>, price |-> [s \in Instruments |-> NaN]]
(* every instrument has a record on every trade date *)
DayShapes ==
    {NoRecord} \cup
    {[rank |-> r, price |-> p] :
        r \in Perms(Instruments),
        p \in [Instruments -> {NaN} \cup PriceLevels]}
Panels == [DateUniverse -> DayShapes]
(* a few day shapes: both priced, ranks swapped with a price move, the top *)
(* ranked instrument unpriced, the other one unpriced                      *)
CoarseShapes ==
    {NoRecord,
     [rank |-> <<"A", "B">>, price |-> [s \in Instruments |-> 1]],
     [rank |-> <<"B", "A">>,
      price |-> [s \in Instruments |-> IF s = "A" THEN 2 ELSE 1]],
     [rank |-> <<"A", "B">>,
      price |-> [s \in Instruments |-> IF s = "A" THEN NaN ELSE 2]],
     [rank |-> <<"A", "B">>,
      price |-> [s \in Instruments |-> IF s = "A" THEN 1 ELSE NaN]]}
CoarsePanels == [DateUniverse -> CoarseShapes]
(* one instrument, priced on each of the first n dates *)
SinglePanels ==
    UNION {{[d \in DateUniverse |->
                IF d <= n
                THEN [rank |-> <<"A">>,
                      price |-> [s \in Instruments |->
                                    IF s = "A" THEN q[d] ELSE NaN]]
                ELSE NoRecord] :
            q \in [{d \in DateUniverse : d <= n} -> PriceLevels \cup {3}]} :
           n \in {0} \cup DateUniverse}
(* sorted(data["trade_date"].unique()) *)
Calendar(p) == SortedSeq({d \in DateUniverse : p[d].rank # <<>>})

VARIABLES
    data, rebalance_dates, top_k, shift_days, cost_bps, exit_mode,
    exit_horizon_days,
    trade_dates, pc, i, result, stats,
    net_returns, gross_returns, turnovers, costs, period_info,
    prev_holdings, prev_entry_date, prev_entry_prices, prev_exit_idx,
    accepted,
    legacy_pc, legacy_i, legacy_result,
    legacy_net_returns, legacy_gross_returns, legacy_turnovers,
    legacy_period_info, legacy_prev_holdings,
    earlier, call

inputs == <<data, rebalance_dates, top_k, shift_days, cost_bps, exit_mode,
            exit_horizon_days>>
history == <<net_returns, gross_returns, turnovers, costs, period_info>>
carry == <<prev_holdings, prev_entry_date, prev_entry_prices, prev_exit_idx>>
(* history variable, not in the code: for each accepted period the list   *)
(* position that opened it and the instruments it held                     *)
current == <<pc, i, result, stats, history, carry, accepted>>
legacy_history == <<legacy_net_returns, legacy_gross_returns,
                    legacy_turnovers, legacy_period_info>>
legacy == <<legacy_pc, legacy_i, legacy_result, legacy_history,
            legacy_prev_holdings>>
(* earlier: the finished invocations of backtest_topk, arguments and      *)
(* outcome; call: one invocation of a function of execution.py or         *)
(* rebalance.py, its arguments and its outcome                            *)
vars == <<inputs, trade_dates, current, legacy, earlier, call>>

(***************************************************************************)
(* Lookups built by the prologue.                                          *)
(***************************************************************************)
InCalendar(d) == \E j \in 1..Len(trade_dates) : trade_dates[j] = d
date_to_idx(d) == (CHOOSE j \in 1..Len(trade_dates) : trade_dates[j] = d) - 1
price_table(d, s) == data[d].price[s]

(***************************************************************************)
(* Lines 38-57: what the iteration at list position j does before it looks *)
(* at prices, given the exit index pe of the last accepted period.         *)
(***************************************************************************)
RebDate(j) == rebalance_dates[j + 1]
IsLast(j) == j >= Len(rebalance_dates) - 1
Period(e, x) == [kind |-> "period", entry_idx |-> e, exit_idx |-> x]
Stop(kind) == [kind |-> kind, entry_idx |-> 0, exit_idx |-> 0]

(* PlanAt with the last rebalance date held to the end of the data *)
PlanAt_HoldLastToEnd(j, pe) ==
    IF ~InCalendar(RebDate(j)) THEN Stop("not_in_calendar")
    ELSE IF exit_mode = "rebalance"
    THEN IF IsLast(j)
         THEN Period(date_to_idx(RebDate(j)) + shift_days,
                     Len(trade_dates) - 1)
         ELSE IF ~InCalendar(RebDate(j + 1)) THEN Stop("next_not_in_calendar")
         ELSE Period(date_to_idx(RebDate(j)) + shift_days,
                     date_to_idx(RebDate(j + 1)) + shift_days)
    ELSE IF exit_horizon_days = None THEN Stop("raise_horizon")
         ELSE LET entry_idx == date_to_idx(RebDate(j)) + shift_days
                  exit_idx == entry_idx + exit_horizon_days[1]
              IN  IF pe # None /\ entry_idx < pe[1]
                  THEN Stop("raise_overlap")
                  ELSE Period(entry_idx, exit_idx)

(* PlanAt with the bounds test of line 59 ahead of the overlap test *)
PlanAt_BoundsBeforeOverlap(j, pe) ==
    IF ~InCalendar(RebDate(j)) THEN Stop("not_in_calendar")
    ELSE IF exit_mode = "rebalance"
    THEN IF IsLast(j) THEN Stop("break")
         ELSE IF ~InCalendar(RebDate(j + 1)) THEN Stop("next_not_in_calendar")
         ELSE Period(date_to_idx(RebDate(j)) + shift_days,
                     date_to_idx(RebDate(j + 1)) + shift_days)
    ELSE IF exit_horizon_days = None THEN Stop("raise_horizon")
         ELSE LET entry_idx == date_to_idx(RebDate(j)) + shift_days
                  exit_idx == entry_idx + exit_horizon_days[1]
              IN  IF \/ entry_idx >= Len(trade_dates)
                     \/ exit_idx >= Len(trade_dates)
                     \/ entry_idx >= exit_idx
                  THEN Period(entry_idx, exit_idx)
                  ELSE IF pe # None /\ entry_idx < pe[1]
                  THEN Stop("raise_overlap")
                  ELSE Period(entry_idx, exit_idx)

(* PlanAt without the overlap test of fixed-horizon exits *)
PlanAt_NoOverlapCheck(j, pe) ==
    IF ~InCalendar(RebDate(j)) THEN Stop("not_in_calendar")
    ELSE IF exit_mode = "rebalance"
    THEN IF IsLast(j) THEN Stop("break")
         ELSE IF ~InCalendar(RebDate(j + 1)) THEN Stop("next_not_in_calendar")
         ELSE Period(date_to_idx(RebDate(j)) + shift_days,
                     date_to_idx(RebDate(j + 1)) + shift_days)
    ELSE IF exit_horizon_days = None THEN Stop("raise_horizon")
         ELSE LET entry_idx == date_to_idx(RebDate(j)) + shift_days
                  exit_idx == entry_idx + exit_horizon_days[1]
              IN  Period(entry_idx, exit_idx)

(* lines 38-57 *)
PlanAt(j, pe) ==
    IF ~InCalendar(RebDate(j)) THEN Stop("not_in_calendar")
    ELSE IF exit_mode = "rebalance"
    THEN IF IsLast(j) THEN Stop("break")
         ELSE IF ~InCalendar(RebDate(j + 1)) THEN Stop("next_not_in_calendar")
         ELSE Period(date_to_idx(RebDate(j)) + shift_days,
                     date_to_idx(RebDate(j + 1)) + shift_days)
    ELSE IF exit_horizon_days = None THEN Stop("raise_horizon")
         ELSE LET entry_idx == date_to_idx(RebDate(j)) + shift_days
                  exit_idx == entry_idx + exit_horizon_days[1]
              IN  IF pe # None /\ entry_idx < pe[1]
                  THEN Stop("raise_overlap")
                  ELSE Period(entry_idx, exit_idx)

(* OutOfBounds without the test that the entry precedes the exit *)
OutOfBounds_EntryMayMeetExit(p) ==
    \/ p.entry_idx >= Len(trade_dates)
    \/ p.exit_idx >= Len(trade_dates)

(* line 59 *)
OutOfBounds(p) ==
    \/ p.entry_idx >= Len(trade_dates)
    \/ p.exit_idx >= Len(trade_dates)
    \/ p.entry_idx >= p.exit_idx

EntryDate(p) == trade_dates[p.entry_idx + 1]
ExitDate(p) == trade_dates[p.exit_idx + 1]

(* lines 64-72: the rows of the rebalance date and the k best of them *)
Day(j) == data[RebDate(j)].rank
Selected(j) == SubSeq(Day(j), 1, Min(top_k, Len(Day(j))))
EmptyDay(j) == Day(j) = <<>> \/ Min(top_k, Len(Day(j))) <= 0

(* Valid without the exit-price test *)
Valid_EntryOnly(p, s) == notna(price_table(EntryDate(p), s))

(* lines 73-82 *)
Valid(p, s) ==
    /\ notna(price_table(EntryDate(p), s))
    /\ notna(price_table(ExitDate(p), s))
(* Holdings giving up the period when any selected instrument is invalid *)
Holdings_AllOrNothing(j, p) ==
    IF \A s \in Range(Selected(j)) : Valid(p, s) THEN Selected(j) ELSE <<>>

(* lines 79-81 *)
Holdings(j, p) == SelectSeq(Selected(j), LAMBDA s : Valid(p, s))
EntryPrices(p, hs) == [s \in hs |-> price_table(EntryDate(p), s)]
ExitPrices(p, hs) == [s \in hs |-> price_table(ExitDate(p), s)]

(* Gross with entry and exit swapped *)
Gross_Inverted(hs, ep, xp) ==
    LET period_returns == [s \in hs |-> RSub(Rat(ep[s], xp[s]), RInt(1))]
    IN  RDiv(RSum(period_returns, hs), RInt(Cardinality(hs)))

(* lines 86-87: gross = ((exit_prices / entry_prices) - 1.0).mean() *)
Gross(hs, ep, xp) ==
    LET period_returns == [s \in hs |-> RSub(Rat(xp[s], ep[s]), RInt(1))]
    IN  RDiv(RSum(period_returns, hs), RInt(Cardinality(hs)))

(* DriftTurnover without the factor one half *)
DriftTurnover_NoHalf(hs, prevP, ed) ==
    LET surv == {s \in DOMAIN prevP :
                    notna(prevP[s]) /\ notna(price_table(ed, s))}
        n == Cardinality(surv)
        drift == [s \in surv |->
                     RMul(Rat(1, n), Rat(price_table(ed, s), prevP[s]))]
        drift_sum == RSum(drift, surv)
        all_ids == surv \cup hs
        k == Cardinality(hs)
        diff == [s \in all_ids |->
                    RAbs(RSub(IF s \in hs THEN Rat(1, k) ELSE RInt(0),
                              IF s \in surv THEN RDiv(drift[s], drift_sum)
                                            ELSE RInt(0)))]
    IN  IF n = 0 THEN None
        ELSE IF ~RLt(RInt(0), drift_sum) THEN None
        ELSE Some(RSum(diff, all_ids))

(* DriftTurnover summed over the current holdings, not the union *)
DriftTurnover_TargetOnly(hs, prevP, ed) ==
    LET surv == {s \in DOMAIN prevP :
                    notna(prevP[s]) /\ notna(price_table(ed, s))}
        n == Cardinality(surv)
        drift == [s \in surv |->
                     RMul(Rat(1, n), Rat(price_table(ed, s), prevP[s]))]
        drift_sum == RSum(drift, surv)
        k == Cardinality(hs)
        diff == [s \in hs |->
                    RAbs(RSub(Rat(1, k),
                              IF s \in surv THEN RDiv(drift[s], drift_sum)
                                            ELSE RInt(0)))]
    IN  IF n = 0 THEN None
        ELSE IF ~RLt(RInt(0), drift_sum) THEN None
        ELSE Some(RMul(Rat(1, 2), RSum(diff, hs)))

(* DriftTurnover with target weights 1/top_k instead of 1/k *)
DriftTurnover_TargetOverTopK(hs, prevP, ed) ==
    LET surv == {s \in DOMAIN prevP :
                    notna(prevP[s]) /\ notna(price_table(ed, s))}
        n == Cardinality(surv)
        drift == [s \in surv |->
                     RMul(Rat(1, n), Rat(price_table(ed, s), prevP[s]))]
        drift_sum == RSum(drift, surv)
        all_ids == surv \cup hs
        diff == [s \in all_ids |->
                    RAbs(RSub(IF s \in hs THEN Rat(1, top_k) ELSE RInt(0),
                              IF s \in surv THEN RDiv(drift[s], drift_sum)
                                            ELSE RInt(0)))]
    IN  IF n = 0 THEN None
        ELSE IF ~RLt(RInt(0), drift_sum) THEN None
        ELSE Some(RMul(Rat(1, 2), RSum(diff, all_ids)))

(* DriftTurnover with the drifted weights not renormalized *)
DriftTurnover_NotRenormalized(hs, prevP, ed) ==
    LET surv == {s \in DOMAIN prevP :
                    notna(prevP[s]) /\ notna(price_table(ed, s))}
        n == Cardinality(surv)
        drift == [s \in surv |->
                     RMul(Rat(1, n), Rat(price_table(ed, s), prevP[s]))]
        drift_sum == RSum(drift, surv)
        all_ids == surv \cup hs
        k == Cardinality(hs)
        diff == [s \in all_ids |->
                    RAbs(RSub(IF s \in hs THEN Rat(1, k) ELSE RInt(0),
                              IF s \in surv THEN drift[s] ELSE RInt(0)))]
    IN  IF n = 0 THEN None
        ELSE IF ~RLt(RInt(0), drift_sum) THEN None
        ELSE Some(RMul(Rat(1, 2), RSum(diff, all_ids)))

(* lines 95-115: drift-aware turnover; None when drift_turnover stays NaN *)
DriftTurnover(hs, prevP, ed) ==
    LET surv == {s \in DOMAIN prevP :
                    notna(prevP[s]) /\ notna(price_table(ed, s))}
        n == Cardinality(surv)
        drift == [s \in surv |->
                     RMul(Rat(1, n), Rat(price_table(ed, s), prevP[s]))]
        drift_sum == RSum(drift, surv)
        all_ids == surv \cup hs
        k == Cardinality(hs)
        diff == [s \in all_ids |->
                    RAbs(RSub(IF s \in hs THEN Rat(1, k) ELSE RInt(0),
                              IF s \in surv THEN RDiv(drift[s], drift_sum)
                                            ELSE RInt(0)))]
    IN  IF n = 0 THEN None
        ELSE IF ~RLt(RInt(0), drift_sum) THEN None
        ELSE Some(RMul(Rat(1, 2), RSum(diff, all_ids)))

(* lines 119-120: turnover = 1 - overlap / k *)
OverlapTurnover(hs, prevH, k) ==
    RSub(RInt(1), Rat(Cardinality(hs \cap prevH), k))

(* lines 88-120 *)
Turnover(hs, ed) ==
    IF prev_holdings = None THEN RInt(1)
    ELSE LET dt == IF prev_entry_prices # None /\ prev_entry_date # None
                   THEN DriftTurnover(hs, prev_entry_prices[1], ed)
                   ELSE None
         IN  IF dt # None THEN dt[1]
             ELSE OverlapTurnover(hs, prev_holdings[1], Cardinality(hs))

(* lines 89-92, 121 *)
cost_per_side == Rat(cost_bps, 10000)

(* Cost with the initial treatment applied to every full turnover *)
Cost_InitialOnFullTurnover(turnover) ==
    IF prev_holdings = None \/ turnover = RInt(1) THEN cost_per_side
    ELSE RMul(RMul(RInt(2), cost_per_side), turnover)

Cost(turnover) ==
    IF prev_holdings = None THEN cost_per_side
    ELSE RMul(RMul(RInt(2), cost_per_side), turnover)

TypeOK ==
    /\ pc \in {"start", "loop", "tail", "done"}
    /\ i \in 0..MaxReb
    /\ result \in {"pending", "None", "stats", "ValueError"}
    /\ legacy_pc \in {"start", "loop", "tail", "done"}
    /\ legacy_result \in {"pending", "None", "stats", "ValueError"}
    /\ Len(earlier) <= 2
    /\ call.fn \in {"none", "resolve_exit_prices", "cost", "build_cost_model",
                   "build_exit_policy", "get_rebalance_dates",
                   "estimate_rebalance_gap", "estimate_turnover"}

(***************************************************************************)
(* The explored calls.                                                     *)
(***************************************************************************)
(* every trade date is a rebalance date, any panel *)
DailyInputs ==
    /\ data \in Panels
    /\ rebalance_dates = Calendar(data)
    /\ top_k \in 0..MaxTopK
    /\ shift_days = 0
    /\ cost_bps = MaxCostBps
    /\ exit_mode = "rebalance"
    /\ exit_horizon_days = None

(* any rebalance-date list *)
ListInputs ==
    /\ data \in CoarsePanels
    /\ rebalance_dates \in SeqsUpTo(DateUniverse, MaxReb)
    /\ top_k \in {1, MaxTopK}
    /\ shift_days \in 0..MaxShift
    /\ cost_bps = MaxCostBps
    /\ exit_mode = "rebalance"
    /\ exit_horizon_days = None

(* a single instrument priced on every trade date, with and without cost *)
SingleInputs ==
    /\ data \in SinglePanels
    /\ rebalance_dates = Calendar(data)
    /\ top_k = 1
    /\ shift_days = 0
    /\ cost_bps \in {0, MaxCostBps}
    /\ exit_mode = "rebalance"
    /\ exit_horizon_days = None

(* fixed-horizon exits, with and without exit_horizon_days *)
HorizonInputs ==
    /\ data \in CoarsePanels
    /\ rebalance_dates \in SeqsUpTo(DateUniverse, MaxHorizonReb)
    /\ top_k \in {1, MaxTopK}
    /\ shift_days = 0
    /\ cost_bps = MaxCostBps
    /\ exit_mode = "label_horizon"
    /\ exit_horizon_days \in {None} \cup {Some(n) : n \in 1..MaxHorizon}

(* no function of execution.py or rebalance.py is being called *)
NoCall == [fn |-> "none"]

(* nothing has run yet *)
NotStarted ==
    /\ trade_dates = <<>>
    /\ pc = "start"
    /\ i = 0
    /\ result = "pending"
    /\ stats = None
    /\ net_returns = <<>>
    /\ gross_returns = <<>>
    /\ turnovers = <<>>
    /\ costs = <<>>
    /\ period_info = <<>>
    /\ prev_holdings = None
    /\ prev_entry_date = None
    /\ prev_entry_prices = None
    /\ prev_exit_idx = None
    /\ accepted = <<>>
    /\ legacy_pc = "start"
    /\ legacy_i = 0
    /\ legacy_result = "pending"
    /\ legacy_net_returns = <<>>
    /\ legacy_gross_returns = <<>>
    /\ legacy_turnovers = <<>>
    /\ legacy_period_info = <<>>
    /\ legacy_prev_holdings = None

Init ==
    /\ \/ DailyInputs
       \/ ListInputs
       \/ SingleInputs
       \/ HorizonInputs
    /\ NotStarted
    /\ earlier = <<>>
    /\ call = NoCall

(***************************************************************************)
(* backtest_topk, src/src/csxgb/backtest.py                                *)
(***************************************************************************)
(* lines 21-35 *)
Enter ==
    /\ pc = "start"
    /\ trade_dates' = Calendar(data)
    /\ IF Len(trade_dates') < 2
       THEN pc' = "done" /\ result' = "None"
       ELSE pc' = "loop" /\ result' = result
    /\ UNCHANGED <<inputs, earlier, call, i, stats, history, carry, accepted,
                   legacy>>

InLoop == pc = "loop" /\ i < Len(rebalance_dates)
Plan == PlanAt(i, prev_exit_idx)

(* Continue that forgets the carried holdings *)
Continue_ResetCarry ==
    /\ i' = i + 1
    /\ prev_holdings' = None
    /\ UNCHANGED <<inputs, earlier, call, trade_dates, pc, result, stats, history, prev_entry_date,
                   prev_entry_prices, prev_exit_idx, accepted, legacy>>

(* continue *)
Continue ==
    /\ i' = i + 1
    /\ UNCHANGED <<inputs, earlier, call, trade_dates, pc, result, stats, history, carry, accepted,
                   legacy>>

(* raise ValueError(...) *)
Raise ==
    /\ pc' = "done"
    /\ result' = "ValueError"
    /\ UNCHANGED <<inputs, earlier, call, trade_dates, i, stats, history, carry,
                   accepted, legacy>>

(* lines 38-39 *)
IterNotInCalendar ==
    /\ InLoop
    /\ Plan.kind = "not_in_calendar"
    /\ Continue

(* lines 40-42 *)
IterBreak ==
    /\ InLoop
    /\ Plan.kind = "break"
    /\ pc' = "tail"
    /\ UNCHANGED <<inputs, earlier, call, trade_dates, i, result, stats, history, carry, accepted,
                   legacy>>

(* lines 43-45 *)
IterNextNotInCalendar ==
    /\ InLoop
    /\ Plan.kind = "next_not_in_calendar"
    /\ Continue

(* lines 49-50 *)
IterRaiseHorizon ==
    /\ InLoop
    /\ Plan.kind = "raise_horizon"
    /\ Raise

(* lines 51-57 *)
IterRaiseOverlap ==
    /\ InLoop
    /\ Plan.kind = "raise_overlap"
    /\ Raise

(* lines 59-60 *)
IterOutOfBounds ==
    /\ InLoop
    /\ Plan.kind = "period"
    /\ OutOfBounds(Plan)
    /\ Continue

(* lines 64-70 *)
IterEmptyDay ==
    /\ InLoop
    /\ Plan.kind = "period"
    /\ ~OutOfBounds(Plan)
    /\ EmptyDay(i)
    /\ Continue

(* lines 72-84 *)
IterNoValid ==
    /\ InLoop
    /\ Plan.kind = "period"
    /\ ~OutOfBounds(Plan)
    /\ ~EmptyDay(i)
    /\ Holdings(i, Plan) = <<>>
    /\ Continue

(* lines 72-140 *)
IterAccept ==
    /\ InLoop
    /\ Plan.kind = "period"
    /\ ~OutOfBounds(Plan)
    /\ ~EmptyDay(i)
    /\ Holdings(i, Plan) # <<>>
    /\ LET holdings == Range(Holdings(i, Plan))
           entry_prices == EntryPrices(Plan, holdings)
           exit_prices == ExitPrices(Plan, holdings)
           gross == Gross(holdings, entry_prices, exit_prices)
           turnover == Turnover(holdings, EntryDate(Plan))
           cost == Cost(turnover)
           net == RSub(gross, cost)
       IN  /\ gross_returns' = Append(gross_returns, gross)
           /\ net_returns' = Append(net_returns, net)
           /\ turnovers' = Append(turnovers, turnover)
           /\ costs' = Append(costs, cost)
           /\ period_info' = Append(period_info,
                  [rebalance_date |-> RebDate(i),
                   entry_idx |-> Plan.entry_idx,
                   exit_idx |-> Plan.exit_idx,
                   entry_date |-> EntryDate(Plan),
                   exit_date |-> ExitDate(Plan)])
           /\ prev_holdings' = Some(holdings)
           /\ prev_entry_date' = Some(EntryDate(Plan))
           /\ prev_entry_prices' = Some(entry_prices)
           /\ prev_exit_idx' = Some(Plan.exit_idx)
           /\ accepted' = Append(accepted, [pos |-> i, holdings |-> holdings])
    /\ i' = i + 1
    /\ UNCHANGED <<inputs, earlier, call, trade_dates, pc, result, stats, legacy>>

(***************************************************************************)
(* Lines 145-190: the statistics.  Means are exact rationals; a cumulative *)
(* product, a power and a square root are written as the expression they   *)
(* are of exact rationals, and what the code tests of them (finite,        *)
(* positive) is computed exactly.                                          *)
(***************************************************************************)
trading_days_per_year == 252

RECURSIVE SeqSum(_)
SeqSum(q) == IF q = <<>> THEN RInt(0) ELSE RAdd(Head(q), SeqSum(Tail(q)))
(* np.mean, Series.mean of a non-empty list *)
mean(q) == RDiv(SeqSum(q), RInt(Len(q)))

(* lines 150-151 *)
total_return(nets) == [kind |-> "cumprod_minus_1", of |-> nets]
(* line 152 *)
max_drawdown(nets) == [kind |-> "min_drawdown", of |-> nets]

(* lines 154-160 *)
ann_return(nets, infos) ==
    LET entry_first == infos[1].entry_idx
        exit_last == Last(infos).exit_idx
        total_days == exit_last - entry_first
    IN  IF total_days > 0
        THEN [kind |-> "power_minus_1", of |-> nets,
              exponent |-> Rat(trading_days_per_year, total_days)]
        ELSE nan

(* lines 162-163 *)
avg_holding(infos) ==
    IF infos = <<>> THEN nan
    ELSE float(mean([j \in 1..Len(infos) |->
                        RInt(infos[j].exit_idx - infos[j].entry_idx)]))
(* lines 164-168 *)
periods_per_year(infos) ==
    IF avg_holding(infos) # nan /\ RLt(RInt(0), avg_holding(infos).value)
    THEN float(RDiv(RInt(trading_days_per_year), avg_holding(infos).value))
    ELSE nan

(* line 169: net_series.std(ddof=1), NaN for fewer than two values, 0 when *)
(* no value deviates from the mean, else the root of the mean square       *)
(* deviation                                                               *)
period_vol(nets) ==
    LET deviations == [j \in 1..Len(nets) |-> RSub(nets[j], mean(nets))]
    IN  IF Len(nets) < 2 THEN nan
        ELSE IF \A j \in 1..Len(nets) : deviations[j] = RInt(0)
        THEN float(RInt(0))
        ELSE [kind |-> "root_mean_square", of |-> deviations,
              over |-> Len(nets) - 1]

(* Defined with a volatility of zero accepted *)
Defined_ZeroVolAccepted(nets, infos) ==
    /\ period_vol(nets) # nan
    /\ periods_per_year(infos) # nan

(* line 170: isfinite(period_vol) and period_vol > 0                       *)
(*           and isfinite(periods_per_year)                                *)
Defined(nets, infos) ==
    /\ period_vol(nets) # nan
    /\ period_vol(nets).kind = "root_mean_square"
    /\ periods_per_year(infos) # nan

(* lines 170-175 *)
ann_vol(nets, infos) ==
    IF Defined(nets, infos)
    THEN [kind |-> "times_root", of |-> period_vol(nets),
          root |-> periods_per_year(infos).value]
    ELSE nan
sharpe(nets, infos) ==
    IF Defined(nets, infos)
    THEN [kind |-> "ratio_times_root", of |-> mean(nets),
          over |-> period_vol(nets), root |-> periods_per_year(infos).value]
    ELSE nan

(* lines 177-189 *)
Stats ==
    [periods |-> Len(net_returns),
     total_return |-> total_return(net_returns),
     ann_return |-> ann_return(net_returns, period_info),
     ann_vol |-> ann_vol(net_returns, period_info),
     sharpe |-> sharpe(net_returns, period_info),
     max_drawdown |-> max_drawdown(net_returns),
     avg_turnover |-> float(mean(turnovers)),
     avg_cost_drag |-> float(mean(costs))]

(* Finish that raises when no period was accepted *)
Finish_RaiseOnEmpty ==
    /\ \/ pc = "tail"
       \/ pc = "loop" /\ i >= Len(rebalance_dates)
    /\ pc' = "done"
    /\ result' = IF net_returns = <<>> THEN "ValueError" ELSE "stats"
    /\ stats' = IF net_returns = <<>> THEN None ELSE Some(Stats)
    /\ UNCHANGED <<inputs, earlier, call, trade_dates, i, history, carry,
                   accepted, legacy>>

(* lines 142-190 *)
Finish ==
    /\ \/ pc = "tail"
       \/ pc = "loop" /\ i >= Len(rebalance_dates)
    /\ pc' = "done"
    /\ result' = IF net_returns = <<>> THEN "None" ELSE "stats"
    /\ stats' = IF net_returns = <<>> THEN None ELSE Some(Stats)
    /\ UNCHANGED <<inputs, earlier, call, trade_dates, i, history, carry,
                   accepted, legacy>>

(***************************************************************************)
(* backtest_topk, src/csxgb/backtest.py (the earlier variant): no overlap  *)
(* check, overlap turnover over the selected instruments, no cost list.    *)
(***************************************************************************)
(* LegacyPlanAt with the exit index not shifted *)
LegacyPlanAt_ExitNotShifted(j) ==
    IF ~InCalendar(RebDate(j)) THEN Stop("not_in_calendar")
    ELSE IF exit_mode = "rebalance"
    THEN IF IsLast(j) THEN Stop("break")
         ELSE IF ~InCalendar(RebDate(j + 1)) THEN Stop("next_not_in_calendar")
         ELSE Period(date_to_idx(RebDate(j)) + shift_days,
                     date_to_idx(RebDate(j + 1)))
    ELSE IF exit_horizon_days = None THEN Stop("raise_horizon")
         ELSE Period(date_to_idx(RebDate(j)) + shift_days,
                     date_to_idx(RebDate(j)) + shift_days
                         + exit_horizon_days[1])

(* lines 34-48 *)
LegacyPlanAt(j) ==
    IF ~InCalendar(RebDate(j)) THEN Stop("not_in_calendar")
    ELSE IF exit_mode = "rebalance"
    THEN IF IsLast(j) THEN Stop("break")
         ELSE IF ~InCalendar(RebDate(j + 1)) THEN Stop("next_not_in_calendar")
         ELSE Period(date_to_idx(RebDate(j)) + shift_days,
                     date_to_idx(RebDate(j + 1)) + shift_days)
    ELSE IF exit_horizon_days = None THEN Stop("raise_horizon")
         ELSE Period(date_to_idx(RebDate(j)) + shift_days,
                     date_to_idx(RebDate(j)) + shift_days
                         + exit_horizon_days[1])

LegacyInLoop == legacy_pc = "loop" /\ legacy_i < Len(rebalance_dates)
LegacyPlan == LegacyPlanAt(legacy_i)

(* lines 21-31 *)
LegacyEnter ==
    /\ legacy_pc = "start"
    /\ trade_dates' = Calendar(data)
    /\ IF Len(trade_dates') < 2
       THEN legacy_pc' = "done" /\ legacy_result' = "None"
       ELSE legacy_pc' = "loop" /\ legacy_result' = legacy_result
    /\ UNCHANGED <<inputs, earlier, call, current, legacy_i, legacy_history,
                   legacy_prev_holdings>>

LegacyContinue ==
    /\ legacy_i' = legacy_i + 1
    /\ UNCHANGED <<inputs, earlier, call, trade_dates, current, legacy_pc, legacy_result,
                   legacy_history, legacy_prev_holdings>>

(* lines 34-35, 40-41 *)
LegacyIterNotInCalendar ==
    /\ LegacyInLoop
    /\ LegacyPlan.kind \in {"not_in_calendar", "next_not_in_calendar"}
    /\ LegacyContinue

(* lines 37-38 *)
LegacyIterBreak ==
    /\ LegacyInLoop
    /\ LegacyPlan.kind = "break"
    /\ legacy_pc' = "tail"
    /\ UNCHANGED <<inputs, earlier, call, trade_dates, current, legacy_i, legacy_result,
                   legacy_history, legacy_prev_holdings>>

(* lines 45-46 *)
LegacyIterRaiseHorizon ==
    /\ LegacyInLoop
    /\ LegacyPlan.kind = "raise_horizon"
    /\ legacy_pc' = "done"
    /\ legacy_result' = "ValueError"
    /\ UNCHANGED <<inputs, earlier, call, trade_dates, current, legacy_i, legacy_history,
                   legacy_prev_holdings>>

(* lines 50-68 *)
LegacyIterSkip ==
    /\ LegacyInLoop
    /\ LegacyPlan.kind = "period"
    /\ \/ OutOfBounds(LegacyPlan)
       \/ ~OutOfBounds(LegacyPlan) /\ EmptyDay(legacy_i)
       \/ /\ ~OutOfBounds(LegacyPlan)
          /\ ~EmptyDay(legacy_i)
          /\ Holdings(legacy_i, LegacyPlan) = <<>>
    /\ LegacyContinue

(* lines 63-91 *)
LegacyIterAccept ==
    /\ LegacyInLoop
    /\ LegacyPlan.kind = "period"
    /\ ~OutOfBounds(LegacyPlan)
    /\ ~EmptyDay(legacy_i)
    /\ Holdings(legacy_i, LegacyPlan) # <<>>
    /\ LET holdings == Range(Selected(legacy_i))
           k == Min(top_k, Len(Day(legacy_i)))
           valid == Range(Holdings(legacy_i, LegacyPlan))
           gross == Gross(valid, EntryPrices(LegacyPlan, valid),
                          ExitPrices(LegacyPlan, valid))
           turnover == IF legacy_prev_holdings = None THEN None
                       ELSE Some(OverlapTurnover(holdings,
                                                 legacy_prev_holdings[1], k))
           cost == IF legacy_prev_holdings = None THEN RInt(0)
                   ELSE RMul(RMul(RInt(2), cost_per_side), turnover[1])
       IN  /\ legacy_gross_returns' = Append(legacy_gross_returns, gross)
           /\ legacy_net_returns' = Append(legacy_net_returns,
                                           RSub(gross, cost))
           /\ legacy_turnovers' = Append(legacy_turnovers, turnover)
           /\ legacy_period_info' = Append(legacy_period_info,
                  [rebalance_date |-> RebDate(legacy_i),
                   entry_idx |-> LegacyPlan.entry_idx,
                   exit_idx |-> LegacyPlan.exit_idx,
                   entry_date |-> EntryDate(LegacyPlan),
                   exit_date |-> ExitDate(LegacyPlan)])
           /\ legacy_prev_holdings' = Some(holdings)
    /\ legacy_i' = legacy_i + 1
    /\ UNCHANGED <<inputs, earlier, call, trade_dates, current, legacy_pc, legacy_result>>

(* lines 93-141 *)
LegacyFinish ==
    /\ \/ legacy_pc = "tail"
       \/ legacy_pc = "loop" /\ legacy_i >= Len(rebalance_dates)
    /\ legacy_pc' = "done"
    /\ legacy_result' = IF legacy_net_returns = <<>> THEN "None" ELSE "stats"
    /\ UNCHANGED <<inputs, earlier, call, trade_dates, current, legacy_i, legacy_history,
                   legacy_prev_holdings>>

Next ==
    \/ Enter
    \/ IterNotInCalendar
    \/ IterBreak
    \/ IterNextNotInCalendar
    \/ IterRaiseHorizon
    \/ IterRaiseOverlap
    \/ IterOutOfBounds
    \/ IterEmptyDay
    \/ IterNoValid
    \/ IterAccept
    \/ Finish

Spec == Init /\ [][Next]_vars

(***************************************************************************)
(* Repeated invocations: the call returns, another call runs on other      *)
(* arguments, and the first call is made again.  Every invocation binds    *)
(* its parameters and initialises its locals (lines 9-35).                 *)
(***************************************************************************)
Args ==
    [data |-> data, rebalance_dates |-> rebalance_dates, top_k |-> top_k,
     shift_days |-> shift_days, cost_bps |-> cost_bps,
     exit_mode |-> exit_mode, exit_horizon_days |-> exit_horizon_days]
(* what the caller receives: None, the exception, or the lists the        *)
(* series and the statistics are computed from (lines 142-190)            *)
Outcome ==
    [result |-> result, stats |-> stats, net_returns |-> net_returns,
     gross_returns |-> gross_returns, turnovers |-> turnovers,
     costs |-> costs, period_info |-> period_info]
OtherArgs ==
    [data |-> [d \in DateUniverse |->
                  [rank |-> <<"B", "A">>,
                   price |-> [s \in Instruments |->
                                 IF s = "A" THEN 2 ELSE 1]]],
     rebalance_dates |-> SortedSeq(DateUniverse), top_k |-> 1,
     shift_days |-> 0, cost_bps |-> MaxCostBps, exit_mode |-> "rebalance",
     exit_horizon_days |-> None]

(* CallAgain with the carry-forward state surviving the return *)
CallAgain_KeepCarry ==
    /\ pc = "done"
    /\ Len(earlier) \in {0, 1}
    /\ earlier' = Append(earlier, [args |-> Args, out |-> Outcome])
    /\ LET a == IF earlier = <<>> THEN OtherArgs ELSE earlier[1].args
       IN  /\ data' = a.data
           /\ rebalance_dates' = a.rebalance_dates
           /\ top_k' = a.top_k
           /\ shift_days' = a.shift_days
           /\ cost_bps' = a.cost_bps
           /\ exit_mode' = a.exit_mode
           /\ exit_horizon_days' = a.exit_horizon_days
    /\ trade_dates' = <<>>
    /\ pc' = "start"
    /\ i' = 0
    /\ result' = "pending"
    /\ stats' = None
    /\ net_returns' = <<>>
    /\ gross_returns' = <<>>
    /\ turnovers' = <<>>
    /\ costs' = <<>>
    /\ period_info' = <<>>
    /\ accepted' = <<>>
    /\ UNCHANGED <<carry, call, legacy>>

(* lines 9-35 of the next invocation *)
CallAgain ==
    /\ pc = "done"
    /\ Len(earlier) \in {0, 1}
    /\ earlier' = Append(earlier, [args |-> Args, out |-> Outcome])
    /\ LET a == IF earlier = <<>> THEN OtherArgs ELSE earlier[1].args
       IN  /\ data' = a.data
           /\ rebalance_dates' = a.rebalance_dates
           /\ top_k' = a.top_k
           /\ shift_days' = a.shift_days
           /\ cost_bps' = a.cost_bps
           /\ exit_mode' = a.exit_mode
           /\ exit_horizon_days' = a.exit_horizon_days
    /\ trade_dates' = <<>>
    /\ pc' = "start"
    /\ i' = 0
    /\ result' = "pending"
    /\ stats' = None
    /\ net_returns' = <<>>
    /\ gross_returns' = <<>>
    /\ turnovers' = <<>>
    /\ costs' = <<>>
    /\ period_info' = <<>>
    /\ prev_holdings' = None
    /\ prev_entry_date' = None
    /\ prev_entry_prices' = None
    /\ prev_exit_idx' = None
    /\ accepted' = <<>>
    /\ UNCHANGED <<call, legacy>>

NextAgain ==
    \/ Next
    \/ CallAgain

(* the first call has no more rebalance dates than there are dates, does  *)
(* not shift them, holds one instrument when its exits are fixed-horizon,  *)
(* and reads a panel of the coarse day shapes or of a single instrument    *)
InitAgain ==
    /\ Init
    /\ Len(rebalance_dates) <= Cardinality(DateUniverse)
    /\ shift_days = 0
    /\ exit_mode = "label_horizon" => top_k = 1
    /\ data \in CoarsePanels \cup SinglePanels

SpecAgain == InitAgain /\ [][NextAgain]_vars

NextLegacy ==
    \/ LegacyEnter
    \/ LegacyIterNotInCalendar
    \/ LegacyIterBreak
    \/ LegacyIterRaiseHorizon
    \/ LegacyIterSkip
    \/ LegacyIterAccept
    \/ LegacyFinish

SpecLegacy == Init /\ [][NextLegacy]_vars

(***************************************************************************)
(* Both variants on the same arguments: the variant of                     *)
(* src/src/csxgb/backtest.py runs to its end, then the variant of          *)
(* src/csxgb/backtest.py runs.  Neither reads what the other writes.       *)
(***************************************************************************)
NextBoth ==
    \/ Next
    \/ pc = "done" /\ NextLegacy

InitBoth == Init /\ Len(rebalance_dates) <= Cardinality(DateUniverse)

SpecBoth == InitBoth /\ [][NextBoth]_vars



(***************************************************************************)
(* ExitPolicy, src/src/csxgb/execution.py.  Rows are the positions of the  *)
(* trading calendar; price_table[r][s] is the price of s at position r,    *)
(* tradable_table is None or gives a flag per position and instrument.     *)
(* date_to_idx maps the date of position r to r.                           *)
(***************************************************************************)
Inf == -1
isfinite(p) == p # NaN /\ p # Inf
Max(a, b) == IF a >= b THEN a ELSE b
SetMax(S) == CHOOSE x \in S : \A y \in S : y <= x
SetMin(S) == CHOOSE x \in S : \A y \in S : x <= y

Rows == 0..2
(* a finite price names its position and its instrument *)
Quote(r, s) == 2 * r + (IF s = "A" THEN 1 ELSE 2)
PriceTables ==
    {[r \in Rows |-> [s \in Instruments |->
         IF st[r][s] = "ok" THEN Quote(r, s)
         ELSE IF st[r][s] = "inf" THEN Inf ELSE NaN]] :
     st \in {t \in [Rows -> [Instruments -> {"nan", "inf", "ok"}]] :
                \A r \in Rows : t[r]["B"] # "inf"}}
TradableTables ==
    {None} \cup
    {Some([r \in Rows |-> [s \in Instruments |->
              IF s = "A" THEN t[r] ELSE TRUE]]) : t \in [Rows -> BOOLEAN]}
HoldingLists == UNION {Perms(S) : S \in SUBSET Instruments}
ExitCalls ==
    [fn : {"resolve_exit_prices"},
     price_policy : {"strict", "ffill", "delay"},
     fallback_policy : {"ffill", "none"},
     holdings : HoldingLists,
     planned_exit_idx : Rows \cup {Cardinality(Rows)},
     price_table : PriceTables,
     tradable_table : TradableTables,
     ret : {None}]

(* window = series.iloc[lo : hi + 1], masked by the tradable flags *)
Window(c, symbol, lo, hi) ==
    {r \in Rows :
        /\ lo <= r
        /\ r <= hi
        /\ c.tradable_table = None \/ c.tradable_table[1][r][symbol]
        /\ notna(c.price_table[r][symbol])}
last_valid_index(c, symbol, hi) ==
    IF Window(c, symbol, 0, hi) = {} THEN None
    ELSE Some(SetMax(Window(c, symbol, 0, hi)))
first_valid_index(c, symbol, lo) ==
    IF Window(c, symbol, lo, Cardinality(Rows)) = {} THEN None
    ELSE Some(SetMin(Window(c, symbol, lo, Cardinality(Rows))))

(* resolve_exit_idx where strict scans back when the planned price is    *)
(* missing                                                                *)
resolve_exit_idx_StrictScansBack(c, symbol) ==
    LET planned == c.planned_exit_idx
    IN  IF planned >= Cardinality(Rows) THEN None
        ELSE IF c.price_policy \in {"strict", "ffill"}
        THEN last_valid_index(c, symbol, planned)
        ELSE LET exit_date == first_valid_index(c, symbol, planned)
             IN  IF exit_date = None /\ c.fallback_policy = "ffill"
                 THEN last_valid_index(c, symbol, planned)
                 ELSE exit_date

(* lines 89-123 *)
resolve_exit_idx(c, symbol) ==
    LET planned == c.planned_exit_idx
    IN  IF planned >= Cardinality(Rows) THEN None
        ELSE IF c.price_policy = "strict"
        THEN IF ~isfinite(c.price_table[planned][symbol]) THEN None
             ELSE IF c.tradable_table # None
                     /\ ~c.tradable_table[1][planned][symbol] THEN None
             ELSE Some(planned)
        ELSE IF c.price_policy = "ffill"
        THEN last_valid_index(c, symbol, planned)
        ELSE LET exit_date == first_valid_index(c, symbol, planned)
             IN  IF exit_date = None /\ c.fallback_policy = "ffill"
                 THEN last_valid_index(c, symbol, planned)
                 ELSE exit_date

(* lines 58-76: the instruments entered in exit_idx_map and exit_price_map *)
Resolved(c) ==
    {s \in Range(c.holdings) :
        /\ resolve_exit_idx(c, s) # None
        /\ isfinite(c.price_table[resolve_exit_idx(c, s)[1]][s])}

(* resolve_exit_prices with the earliest resolved index under delay *)
resolve_exit_prices_EarliestIdx(c) ==
    LET exit_idx_map == [s \in Resolved(c) |-> resolve_exit_idx(c, s)[1]]
        exit_price_map ==
            [s \in Resolved(c) |-> c.price_table[exit_idx_map[s]][s]]
    IN  IF c.holdings = <<>> \/ Resolved(c) = {}
        THEN [exit_prices |-> <<>>, period_exit_idx |-> c.planned_exit_idx]
        ELSE [exit_prices |-> exit_price_map,
              period_exit_idx |->
                  IF c.price_policy = "delay"
                  THEN Max(c.planned_exit_idx,
                           SetMin({exit_idx_map[s] : s \in Resolved(c)}))
                  ELSE c.planned_exit_idx]

(* lines 45-87 *)
resolve_exit_prices(c) ==
    LET exit_idx_map == [s \in Resolved(c) |-> resolve_exit_idx(c, s)[1]]
        exit_price_map ==
            [s \in Resolved(c) |-> c.price_table[exit_idx_map[s]][s]]
    IN  IF c.holdings = <<>> \/ Resolved(c) = {}
        THEN [exit_prices |-> <<>>, period_exit_idx |-> c.planned_exit_idx]
        ELSE [exit_prices |-> exit_price_map,
              period_exit_idx |->
                  IF c.price_policy = "delay"
                  THEN Max(c.planned_exit_idx,
                           SetMax({exit_idx_map[s] : s \in Resolved(c)}))
                  ELSE c.planned_exit_idx]

ResolveExitPrices ==
    /\ call.fn = "resolve_exit_prices"
    /\ call.ret = None
    /\ call' = [call EXCEPT !.ret = Some(resolve_exit_prices(call))]
    /\ UNCHANGED <<inputs, trade_dates, current, legacy, earlier>>

(***************************************************************************)
(* Cost models, src/src/csxgb/execution.py lines 19-37.  A model is        *)
(* "bps" (BpsCostModel) or "none" (NoCostModel); bps is a float: NaN,      *)
(* +inf or a finite number of basis points.                                *)
(***************************************************************************)
BpsLevels == {-5, 0, 5, 20}
TurnoverLevels ==
    {Rat(-1, 2), Rat(0, 1), Rat(1, 4), Rat(1, 2), Rat(1, 1), Rat(3, 2)}
CostCalls ==
    [fn : {"cost"},
     model : {"bps", "none"},
     bps_kind : {"finite", "nan", "inf"},
     bps : BpsLevels,
     round_trip : BOOLEAN,
     turnover : TurnoverLevels,
     is_initial : BOOLEAN,
     side : {"both", "sell"},
     ret : {None}]

(* BpsCostModel.cost charging the part of the portfolio that is kept *)
BpsCostModel_cost_OnRetained(c) ==
    IF c.bps_kind # "finite" \/ c.bps <= 0 THEN RInt(0)
    ELSE LET per_side == Rat(c.bps, 10000)
             factor == IF c.round_trip THEN 2 ELSE 1
         IN  IF c.is_initial THEN per_side
             ELSE RMul(RMul(RInt(factor), per_side),
                       RSub(RInt(1), c.turnover))

(* lines 24-31 *)
BpsCostModel_cost(c) ==
    IF c.bps_kind # "finite" \/ c.bps <= 0 THEN RInt(0)
    ELSE LET per_side == Rat(c.bps, 10000)
             factor == IF c.round_trip THEN 2 ELSE 1
         IN  IF c.is_initial THEN per_side
             ELSE RMul(RMul(RInt(factor), per_side), c.turnover)

(* lines 36-37 *)
NoCostModel_cost(c) == RInt(0)

Cost_call ==
    /\ call.fn = "cost"
    /\ call.ret = None
    /\ call' = [call EXCEPT !.ret =
                   Some(IF call.model = "bps" THEN BpsCostModel_cost(call)
                        ELSE NoCostModel_cost(call))]
    /\ UNCHANGED <<inputs, trade_dates, current, legacy, earlier>>

(***************************************************************************)
(* build_cost_model and build_exit_policy, src/src/csxgb/execution.py      *)
(* lines 132-169.  A configuration is None, a mapping (each key absent or  *)
(* present with a value) or some other value, which str() turns into its   *)
(* text.                                                                   *)
(***************************************************************************)
(* str(x).strip().lower() on the texts used below *)
lower_strip(text) ==
    CASE text = "Off" -> "off"
      [] text = " BPS " -> "bps"
      [] text = "STRICT" -> "strict"
      [] text = " None " -> "none"
      [] OTHER -> text
(* x is present and bool(x) is True *)
Truthy(x) == x # None /\ x[1] # ""

CostNames ==
    {"none", "zero", "off", "bps", "bp", "basis", "flat", "Off", " BPS "}
DefaultBps == {15}
CostConfigs ==
    {[form |-> "None", name |-> None, bps |-> None, round_trip |-> None]}
    \cup [form : {"other"}, name : {Some(t) : t \in CostNames},
          bps : {None}, round_trip : {None}]
    \cup [form : {"mapping"},
          name : {None} \cup {Some(t) : t \in CostNames},
          bps : {None, Some(12)},
          round_trip : {None, Some(TRUE), Some(FALSE)}]
CostModelCalls ==
    [fn : {"build_cost_model"}, cost_cfg : CostConfigs,
     default_bps : DefaultBps, ret : {None}]

NoCostModel == [kind |-> "NoCostModel"]
BpsCostModel(bps, round_trip) ==
    [kind |-> "BpsCostModel", bps |-> bps, round_trip |-> round_trip]
ValueError(what) == [kind |-> "ValueError", what |-> what]

(* lines 132-148 *)
build_cost_model(cost_cfg, default_bps) ==
    IF cost_cfg.form = "None" THEN BpsCostModel(default_bps, TRUE)
    ELSE IF cost_cfg.form # "mapping"
    THEN IF lower_strip(cost_cfg.name[1]) \in {"none", "zero", "off"}
         THEN NoCostModel
         ELSE BpsCostModel(default_bps, TRUE)
    ELSE LET name == IF cost_cfg.name = None THEN "bps"
                     ELSE lower_strip(cost_cfg.name[1])
         IN  IF name \in {"none", "zero", "off"} THEN NoCostModel
             ELSE IF name \in {"bps", "bp", "basis"}
             THEN BpsCostModel(
                      IF cost_cfg.bps = None THEN default_bps
                      ELSE cost_cfg.bps[1],
                      IF cost_cfg.round_trip = None THEN TRUE
                      ELSE cost_cfg.round_trip[1])
             ELSE ValueError("cost model")

BuildCostModel ==
    /\ call.fn = "build_cost_model"
    /\ call.ret = None
    /\ call' = [call EXCEPT !.ret =
                   Some(build_cost_model(call.cost_cfg, call.default_bps))]
    /\ UNCHANGED <<inputs, trade_dates, current, legacy, earlier>>

PriceTexts == {"strict", "ffill", "delay", "bad", "STRICT", ""}
FallbackTexts == {"ffill", "none", "bad", " None ", ""}
ExitConfigs ==
    [form : {"None", "other"}, price : {None}, price_policy : {None},
     fallback : {None}, fallback_policy : {None}]
    \cup [form : {"mapping"},
          price : {None} \cup {Some(t) : t \in PriceTexts},
          price_policy : {None} \cup {Some(t) : t \in PriceTexts},
          fallback : {None} \cup {Some(t) : t \in FallbackTexts},
          fallback_policy : {None} \cup {Some(t) : t \in FallbackTexts}]
ExitPolicyCalls ==
    [fn : {"build_exit_policy"}, exit_cfg : ExitConfigs,
     default_price : {"strict", "ffill", "delay"},
     default_fallback : {"ffill", "none"}, ret : {None}]

ExitPolicy(price_policy, fallback_policy) ==
    [kind |-> "ExitPolicy", price_policy |-> price_policy,
     fallback_policy |-> fallback_policy]
(* a or b or c *)
FirstTruthy(a, b, c) ==
    IF Truthy(a) THEN a[1] ELSE IF Truthy(b) THEN b[1] ELSE c

(* build_exit_policy without the test of the fallback value *)
build_exit_policy_PriceOnly(exit_cfg, default_price, default_fallback) ==
    IF exit_cfg.form # "mapping"
    THEN ExitPolicy(default_price, default_fallback)
    ELSE LET price == lower_strip(FirstTruthy(exit_cfg.price,
                                              exit_cfg.price_policy,
                                              default_price))
             fallback == lower_strip(FirstTruthy(exit_cfg.fallback,
                                                 exit_cfg.fallback_policy,
                                                 default_fallback))
         IN  IF price \notin {"strict", "ffill", "delay"}
             THEN ValueError("exit_policy.price")
             ELSE ExitPolicy(price, fallback)

(* lines 151-169 *)
build_exit_policy(exit_cfg, default_price, default_fallback) ==
    IF exit_cfg.form # "mapping"
    THEN ExitPolicy(default_price, default_fallback)
    ELSE LET price == lower_strip(FirstTruthy(exit_cfg.price,
                                              exit_cfg.price_policy,
                                              default_price))
             fallback == lower_strip(FirstTruthy(exit_cfg.fallback,
                                                 exit_cfg.fallback_policy,
                                                 default_fallback))
         IN  IF price \notin {"strict", "ffill", "delay"}
             THEN ValueError("exit_policy.price")
             ELSE IF fallback \notin {"ffill", "none"}
             THEN ValueError("exit_policy.fallback")
             ELSE ExitPolicy(price, fallback)

BuildExitPolicy ==
    /\ call.fn = "build_exit_policy"
    /\ call.ret = None
    /\ call' = [call EXCEPT !.ret =
                   Some(build_exit_policy(call.exit_cfg, call.default_price,
                                          call.default_fallback))]
    /\ UNCHANGED <<inputs, trade_dates, current, legacy, earlier>>

(***************************************************************************)
(* src/src/csxgb/rebalance.py.  Dates are day numbers; a period frequency  *)
(* cuts the days into consecutive periods (Series.dt.to_period).           *)
(***************************************************************************)
Days == 1..5
Freqs == {"", "D", "W", "M"}
to_period(d, freq) ==
    IF freq = "W" THEN (d + 1) \div 2 ELSE (d + 2) \div 3

RECURSIVE Insert(_, _)
Insert(x, q) ==
    IF q = <<>> THEN <<x>>
    ELSE IF x <= Head(q) THEN <<x>> \o q
    ELSE <<Head(q)>> \o Insert(x, Tail(q))
RECURSIVE sorted(_)
(* sorted(...) of a list, repeated elements kept *)
sorted(q) == IF q = <<>> THEN <<>> ELSE Insert(Head(q), sorted(Tail(q)))

RebalanceDatesCalls ==
    [fn : {"get_rebalance_dates"}, dates : SeqsUpTo(Days, MaxDates),
     freq : Freqs, ret : {None}]

(* get_rebalance_dates with the first date of each period *)
get_rebalance_dates_FirstOfPeriod(dates, freq) ==
    IF dates = <<>> THEN <<>>
    ELSE IF freq = "" \/ freq = "D" THEN sorted(dates)
    ELSE LET period == {to_period(d, freq) : d \in Range(dates)}
         IN  SortedSeq({SetMin({d \in Range(dates) : to_period(d, freq) = g}) :
                         g \in period})

(* lines 9-21 *)
get_rebalance_dates(dates, freq) ==
    IF dates = <<>> THEN <<>>
    ELSE IF freq = "" \/ freq = "D" THEN sorted(dates)
    ELSE LET period == {to_period(d, freq) : d \in Range(dates)}
         IN  SortedSeq({SetMax({d \in Range(dates) : to_period(d, freq) = g}) :
                         g \in period})

GetRebalanceDates ==
    /\ call.fn = "get_rebalance_dates"
    /\ call.ret = None
    /\ call' = [call EXCEPT !.ret =
                   Some(get_rebalance_dates(call.dates, call.freq))]
    /\ UNCHANGED <<inputs, trade_dates, current, legacy, earlier>>

(* lists of distinct dates, in any order *)
DateLists == UNION {Perms(S) : S \in SUBSET Days}
GapCalls ==
    [fn : {"estimate_rebalance_gap"}, trade_dates : DateLists,
     rebalance_dates : {q \in DateLists : Len(q) <= MaxDates}, ret : {None}]

(* np.median of a non-empty list of integers *)
median(q) ==
    LET s == sorted(q)
        n == Len(s)
    IN  IF n % 2 = 1 THEN RInt(s[(n + 1) \div 2])
        ELSE Rat(s[n \div 2] + s[n \div 2 + 1], 2)
(* lines 32-38 *)
Gaps(c) ==
    LET trade_dates_sorted == sorted(c.trade_dates)
        idx(d) == (CHOOSE j \in 1..Len(trade_dates_sorted) :
                       trade_dates_sorted[j] = d) - 1
        usable == SelectSeq([j \in 1..(Len(c.rebalance_dates) - 1) |-> j],
                            LAMBDA j : /\ c.rebalance_dates[j]
                                            \in Range(c.trade_dates)
                                       /\ c.rebalance_dates[j + 1]
                                            \in Range(c.trade_dates))
    IN  [n \in 1..Len(usable) |->
            idx(c.rebalance_dates[usable[n] + 1])
                - idx(c.rebalance_dates[usable[n]])]

(* estimate_rebalance_gap measuring in days, not in calendar positions *)
estimate_rebalance_gap_InDays(c) ==
    LET usable == SelectSeq([j \in 1..(Len(c.rebalance_dates) - 1) |-> j],
                            LAMBDA j : /\ c.rebalance_dates[j]
                                            \in Range(c.trade_dates)
                                       /\ c.rebalance_dates[j + 1]
                                            \in Range(c.trade_dates))
        gaps == [n \in 1..Len(usable) |->
                    c.rebalance_dates[usable[n] + 1]
                        - c.rebalance_dates[usable[n]]]
    IN  IF Len(c.rebalance_dates) < 2 \/ Len(c.trade_dates) < 2 THEN nan
        ELSE IF gaps = <<>> THEN nan
        ELSE float(median(gaps))

(* lines 24-41 *)
estimate_rebalance_gap(c) ==
    IF Len(c.rebalance_dates) < 2 \/ Len(c.trade_dates) < 2 THEN nan
    ELSE IF Gaps(c) = <<>> THEN nan
    ELSE float(median(Gaps(c)))

EstimateRebalanceGap ==
    /\ call.fn = "estimate_rebalance_gap"
    /\ call.ret = None
    /\ call' = [call EXCEPT !.ret = Some(estimate_rebalance_gap(call))]
    /\ UNCHANGED <<inputs, trade_dates, current, legacy, earlier>>

(***************************************************************************)
(* estimate_turnover, src/src/csxgb/metrics.py lines 98-122.  data[d] are  *)
(* the instruments with a row on date d, in descending order of            *)
(* prediction score.                                                       *)
(***************************************************************************)
RankLists ==
    {<<>>, <<"A">>, <<"A", "B">>, <<"A", "B", "C">>, <<"C", "B", "A">>,
     <<"B", "C", "A">>}
TopCounts == {1, 2}
TurnoverCalls ==
    [fn : {"estimate_turnover"}, data : [DateUniverse -> RankLists],
     k : TopCounts, rebalance_dates : SeqsUpTo(DateUniverse, MaxDates),
     ret : {None}]

(* line 110: set(day.nlargest(k, pred_col)["ts_code"]) *)
nlargest(c, date) == Range(SubSeq(c.data[date], 1, c.k))

RECURSIVE InsertByDate(_, _)
InsertByDate(x, q) ==
    IF q = <<>> THEN <<x>>
    ELSE IF x.date <= Head(q).date THEN <<x>> \o q
    ELSE <<Head(q)>> \o InsertByDate(x, Tail(q))
RECURSIVE SortByDate(_)
(* line 117: turnovers.sort(key=lambda x: x[0]), a stable sort *)
SortByDate(q) ==
    IF q = <<>> THEN <<>> ELSE InsertByDate(Head(q), SortByDate(Tail(q)))

RECURSIVE Scan_ForgetOnSkip(_, _, _, _)
(* Scan where a skipped date clears the remembered holdings *)
Scan_ForgetOnSkip(c, j, prev, turnovers_) ==
    IF j > Len(c.rebalance_dates) THEN turnovers_
    ELSE LET date == c.rebalance_dates[j]
             holdings == nlargest(c, date)
         IN  IF Len(c.data[date]) < c.k
             THEN Scan_ForgetOnSkip(c, j + 1, None, turnovers_)
             ELSE Scan_ForgetOnSkip(c, j + 1, Some(holdings),
                      IF prev # None
                      THEN Append(turnovers_,
                               [date |-> date,
                                value |-> RSub(RInt(1),
                                    Rat(Cardinality(holdings \cap prev[1]),
                                        c.k))])
                      ELSE turnovers_)

RECURSIVE Scan(_, _, _, _)
(* lines 106-114: the loop from list position j on, prev being the         *)
(* remembered holdings and turnovers_ the values emitted so far            *)
Scan(c, j, prev, turnovers_) ==
    IF j > Len(c.rebalance_dates) THEN turnovers_
    ELSE LET date == c.rebalance_dates[j]
             holdings == nlargest(c, date)
         IN  IF Len(c.data[date]) < c.k
             THEN Scan(c, j + 1, prev, turnovers_)
             ELSE Scan(c, j + 1, Some(holdings),
                      IF prev # None
                      THEN Append(turnovers_,
                               [date |-> date,
                                value |-> RSub(RInt(1),
                                    Rat(Cardinality(holdings \cap prev[1]),
                                        c.k))])
                      ELSE turnovers_)

(* lines 98-122: the returned series, date and value of each element *)
estimate_turnover(c) == SortByDate(Scan(c, 1, None, <<>>))

EstimateTurnover ==
    /\ call.fn = "estimate_turnover"
    /\ call.ret = None
    /\ call' = [call EXCEPT !.ret = Some(estimate_turnover(call))]
    /\ UNCHANGED <<inputs, trade_dates, current, legacy, earlier>>

(* the calls of execution.py, rebalance.py and metrics.py, one per        *)
(* behaviour                                                              *)
InitCalls ==
    /\ data = OtherArgs.data
    /\ rebalance_dates = OtherArgs.rebalance_dates
    /\ top_k = OtherArgs.top_k
    /\ shift_days = OtherArgs.shift_days
    /\ cost_bps = OtherArgs.cost_bps
    /\ exit_mode = OtherArgs.exit_mode
    /\ exit_horizon_days = OtherArgs.exit_horizon_days
    /\ NotStarted
    /\ earlier = <<>>
    /\ \/ call \in ExitCalls
       \/ call \in CostCalls
       \/ call \in CostModelCalls
       \/ call \in ExitPolicyCalls
       \/ call \in RebalanceDatesCalls
       \/ call \in GapCalls
       \/ call \in TurnoverCalls

NextCalls ==
    \/ ResolveExitPrices
    \/ Cost_call
    \/ BuildCostModel
    \/ BuildExitPolicy
    \/ GetRebalanceDates
    \/ EstimateRebalanceGap
    \/ EstimateTurnover

SpecCalls == InitCalls /\ [][NextCalls]_vars

(***************************************************************************)
(* Properties.                                                             *)
(***************************************************************************)
Zero == RInt(0)
One == RInt(1)
N == Len(Calendar(data))

(* C1: in exit_mode=rebalance the last element of rebalance_dates never    *)
(* opens a period: a period is only ever appended by an iteration at a     *)
(* position before the last one (and records that position's date), and    *)
(* the iteration at the last position appends nothing and ends the loop.   *)
C1_LastDateOpensNoPeriod ==
    [][exit_mode = "rebalance" =>
          /\ period_info' # period_info =>
                /\ i < Len(rebalance_dates) - 1
                /\ Last(period_info').rebalance_date = RebDate(i)
          /\ (pc = "loop" /\ i = Len(rebalance_dates) - 1) =>
                /\ period_info' = period_info
                /\ pc' = "tail" \/ i' = Len(rebalance_dates)]_vars

(* every position before the last opened a period, the last did not *)
C1_Witness ==
    /\ exit_mode = "rebalance"
    /\ pc = "done"
    /\ result = "stats"
    /\ Len(rebalance_dates) = 3
    /\ Len(period_info) = 2
    /\ i = 2
    /\ InCalendar(RebDate(2))

C3_InitialTreatmentOnlyFirst ==
    /\ Len(costs) = Len(turnovers)
    /\ Len(accepted) = Len(turnovers)
    /\ \A j \in 1..Len(costs) :
          IF j = 1
          THEN turnovers[j] = One /\ costs[j] = cost_per_side
          ELSE costs[j] = RMul(RMul(RInt(2), cost_per_side), turnovers[j])
    /\ IF accepted = <<>>
       THEN prev_holdings = None
       ELSE prev_holdings = Some(Last(accepted).holdings)

(* two accepted periods with a skipped iteration between them, the later   *)
(* one with full turnover                                                  *)
C3_Witness ==
    /\ Len(accepted) >= 2
    /\ accepted[2].pos > accepted[1].pos + 1
    /\ turnovers[2] = One
    /\ costs[2] = RMul(RInt(2), cost_per_side)
    /\ cost_bps > 0

(* C4: an iteration is atomic.  A step that appends no period leaves the   *)
(* five history lists and the four carry-forward fields unchanged; a step  *)
(* that appends a period appends exactly one element to each list and      *)
(* replaces all four carry-forward fields by that period's values.         *)
C4_IterationAtomic ==
    [][IF period_info' = period_info
       THEN UNCHANGED <<history, carry>>
       ELSE /\ gross_returns' = Append(gross_returns, Last(gross_returns'))
            /\ net_returns' = Append(net_returns, Last(net_returns'))
            /\ turnovers' = Append(turnovers, Last(turnovers'))
            /\ costs' = Append(costs, Last(costs'))
            /\ period_info' = Append(period_info, Last(period_info'))
            /\ prev_holdings' # None
            /\ prev_holdings'[1] # {}
            /\ prev_entry_prices' # None
            /\ DOMAIN prev_entry_prices'[1] = prev_holdings'[1]
            /\ prev_entry_date' = Some(Last(period_info').entry_date)
            /\ prev_exit_idx' = Some(Last(period_info').exit_idx)
            /\ i' = i + 1]_vars

(* a skipped iteration after an accepted period, the carry still in place *)
C4_Witness ==
    /\ pc = "loop"
    /\ Len(period_info) = 1
    /\ accepted[1].pos = 0
    /\ i = 2
    /\ prev_holdings = Some(accepted[1].holdings)
    /\ prev_exit_idx = Some(period_info[1].exit_idx)

(* C5: in exit_mode=rebalance the call never raises; it returns None       *)
(* exactly when the panel has fewer than two trade dates or no period was  *)
(* accepted, and a result with at least one period otherwise.              *)
C5_InsufficientDataIsNone ==
    (pc = "done" /\ exit_mode = "rebalance") =>
        /\ result \in {"None", "stats"}
        /\ result = "None" <=> (N < 2 \/ period_info = <<>>)
        /\ result = "stats" => Len(net_returns) >= 1

(* at least two trade dates, the loop ran, every iteration was skipped *)
C5_Witness ==
    /\ pc = "done"
    /\ exit_mode = "rebalance"
    /\ N >= 2
    /\ i >= 2
    /\ period_info = <<>>
    /\ result = "None"

(* C6: in exit_mode=label_horizon a rebalance date whose entry index is    *)
(* smaller than the exit index of the last accepted period raises          *)
(* ValueError.  Stated of the current variant.                             *)
C6_OverlapRaises ==
    [][(/\ exit_mode = "label_horizon"
        /\ InLoop
        /\ InCalendar(RebDate(i))
        /\ exit_horizon_days # None
        /\ period_info # <<>>
        /\ date_to_idx(RebDate(i)) + shift_days < Last(period_info).exit_idx)
       => result' = "ValueError"]_vars

(* C6, stated of the earlier variant: the same rebalance date must raise.  *)
C6_LegacyOverlapRaises ==
    [][(/\ exit_mode = "label_horizon"
        /\ LegacyInLoop
        /\ InCalendar(RebDate(legacy_i))
        /\ exit_horizon_days # None
        /\ legacy_period_info # <<>>
        /\ date_to_idx(RebDate(legacy_i)) + shift_days
              < Last(legacy_period_info).exit_idx)
       => legacy_result' = "ValueError"]_vars

(* C7: exit_mode=label_horizon without exit_horizon_days always ends in    *)
(* ValueError, whatever the panel and the rebalance dates.                 *)
C7_MissingHorizonAlwaysRaises ==
    (pc = "done" /\ exit_mode = "label_horizon" /\ exit_horizon_days = None)
        => result = "ValueError"

(* C8: when every selected instrument lacks a price on the exit date the   *)
(* iteration is skipped: nothing is appended, nothing is raised, and the   *)
(* loop goes on to the next rebalance date.                                *)
NoExitPrice(j, p) ==
    /\ p.kind = "period"
    /\ ~OutOfBounds(p)
    /\ Selected(j) # <<>>
    /\ \A s \in Range(Selected(j)) : ~notna(price_table(ExitDate(p), s))
C8_MissingExitSkipsPeriod ==
    [][(InLoop /\ NoExitPrice(i, Plan)) =>
          /\ UNCHANGED <<history, carry>>
          /\ pc' = "loop"
          /\ result' = "pending"
          /\ i' = i + 1]_vars

(* the sole holding had an entry price and no exit price, and was skipped *)
C8_Witness ==
    /\ exit_mode = "rebalance"
    /\ pc = "loop"
    /\ top_k = 1
    /\ i = 1
    /\ NoExitPrice(0, PlanAt(0, None))
    /\ notna(price_table(EntryDate(PlanAt(0, None)), Selected(0)[1]))
    /\ period_info = <<>>

(* C9: net = gross - cost in every period; with one instrument priced on   *)
(* each of N >= 2 trade dates, every trade date a rebalance date, top_k=1  *)
(* and shift_days=0, exactly N-1 periods are accepted, period j has gross  *)
(* return p[j+1]/p[j] - 1, and with cost_bps=0 net equals gross.           *)
SingleInstrumentDaily ==
    /\ exit_mode = "rebalance"
    /\ top_k = 1
    /\ shift_days = 0
    /\ rebalance_dates = Calendar(data)
    /\ N >= 2
    /\ \A d \in Range(Calendar(data)) :
          data[d].rank = <<"A">> /\ notna(data[d].price["A"])
C9_DailySingleInstrument ==
    /\ \A j \in 1..Len(net_returns) :
          net_returns[j] = RSub(gross_returns[j], costs[j])
    /\ (pc = "done" /\ SingleInstrumentDaily) =>
          /\ result = "stats"
          /\ Len(gross_returns) = N - 1
          /\ \A j \in 1..(N - 1) :
                /\ gross_returns[j] =
                      RSub(Rat(data[Calendar(data)[j + 1]].price["A"],
                               data[Calendar(data)[j]].price["A"]), One)
                /\ cost_bps = 0 => net_returns[j] = gross_returns[j]

(* three dates, rising price, no cost *)
C9_Witness ==
    /\ pc = "done"
    /\ SingleInstrumentDaily
    /\ N = 3
    /\ cost_bps = 0
    /\ data[1].price["A"] < data[2].price["A"]
    /\ data[2].price["A"] < data[3].price["A"]
    /\ Len(net_returns) = 2

(* C10: an accepted period whose holdings are disjoint from those of the   *)
(* accepted period before it has turnover 1; so with every instrument      *)
(* priced, top_k=1 and the top-ranked instrument changing at every         *)
(* rebalance date, every period after the first has turnover 1.            *)
RanksSwapDaily ==
    /\ exit_mode = "rebalance"
    /\ top_k = 1
    /\ shift_days = 0
    /\ rebalance_dates = Calendar(data)
    /\ \A d \in Range(Calendar(data)) :
          /\ Len(data[d].rank) = 2
          /\ \A s \in Instruments : notna(data[d].price[s])
    /\ \A j \in 1..(N - 1) :
          data[Calendar(data)[j]].rank[1] # data[Calendar(data)[j + 1]].rank[1]
C10_DisjointHoldingsFullTurnover ==
    /\ \A j \in 2..Len(accepted) :
          accepted[j].holdings \cap accepted[j - 1].holdings = {}
              => turnovers[j] = One
    /\ RanksSwapDaily => \A j \in 2..Len(turnovers) : turnovers[j] = One

(* ranks swap, one holding replaced by the other on the drift-aware path *)
C10_Witness ==
    /\ RanksSwapDaily
    /\ pc = "done"
    /\ Len(accepted) = 2
    /\ accepted[1].holdings \cap accepted[2].holdings = {}
    /\ turnovers[2] = One

(* C11: an accepted period that holds the same instruments as the accepted *)
(* period before it, each at the same price on both entry dates, has       *)
(* turnover 0 and cost 0.                                                  *)
SameHoldingsFlat(j) ==
    /\ accepted[j].holdings = accepted[j - 1].holdings
    /\ \A s \in accepted[j].holdings :
          price_table(period_info[j].entry_date, s)
              = price_table(period_info[j - 1].entry_date, s)
C11_FlatSameHoldingsNoTurnover ==
    \A j \in 2..Len(accepted) :
        SameHoldingsFlat(j) => turnovers[j] = Zero /\ costs[j] = Zero

(* two instruments held twice at unchanged prices, with a cost rate *)
C11_Witness ==
    /\ Len(accepted) >= 2
    /\ Cardinality(accepted[2].holdings) = 2
    /\ SameHoldingsFlat(2)
    /\ cost_bps > 0
    /\ turnovers[2] = Zero
    /\ costs[2] = Zero

Returned(fn) == call.fn = fn /\ call.ret # None
C13_StrictKeepsPlannedIndex ==
    (Returned("resolve_exit_prices") /\ call.price_policy = "strict") =>
        /\ call.ret[1].period_exit_idx = call.planned_exit_idx
        /\ \A s \in DOMAIN call.ret[1].exit_prices :
              /\ call.planned_exit_idx \in Rows
              /\ call.ret[1].exit_prices[s]
                    = call.price_table[call.planned_exit_idx][s]

(* strict, A is not tradable at the planned index and has prices around    *)
(* it, B is returned at its planned price                                  *)
C13_Witness ==
    /\ Returned("resolve_exit_prices")
    /\ call.price_policy = "strict"
    /\ call.planned_exit_idx = 1
    /\ call.holdings = <<"A", "B">>
    /\ call.tradable_table # None
    /\ ~call.tradable_table[1][1]["A"]
    /\ \A r \in Rows : isfinite(call.price_table[r]["A"])
    /\ DOMAIN call.ret[1].exit_prices = {"B"}
    /\ call.ret[1].exit_prices["B"] = Quote(1, "B")

(* C14: with price_policy=delay the period exit index is the largest       *)
(* resolved exit index of the returned instruments, and the planned index  *)
(* when that is larger or nothing resolved; with strict and ffill it is    *)
(* the planned index.                                                      *)
C14_DelayReturnsLatestExit ==
    Returned("resolve_exit_prices") =>
        LET out == call.ret[1]
            idx(s) == resolve_exit_idx(call, s)[1]
        IN  IF call.price_policy = "delay"
            THEN /\ out.period_exit_idx >= call.planned_exit_idx
                 /\ \A s \in DOMAIN out.exit_prices :
                       idx(s) <= out.period_exit_idx
                 /\ out.period_exit_idx > call.planned_exit_idx =>
                       \E s \in DOMAIN out.exit_prices :
                           idx(s) = out.period_exit_idx
            ELSE out.period_exit_idx = call.planned_exit_idx

(* delay, both instruments scan forward and resolve at different indices *)
C14_Witness ==
    /\ Returned("resolve_exit_prices")
    /\ call.price_policy = "delay"
    /\ call.planned_exit_idx = 0
    /\ DOMAIN call.ret[1].exit_prices = {"A", "B"}
    /\ resolve_exit_idx(call, "A") = Some(1)
    /\ resolve_exit_idx(call, "B") = Some(2)
    /\ call.ret[1].period_exit_idx = 2

(* C15: a BpsCostModel with bps > 0 charges nothing for turnover 0 on a    *)
(* period that is not the initial one, a cost that does not decrease as    *)
(* turnover grows within [0, 1], and never a negative cost for turnover    *)
(* in [0, 1]; a NoCostModel charges 0 whatever the arguments.              *)
InUnit(t) == RLe(Zero, t) /\ RLe(t, One)
PositiveBps(c) == c.bps_kind = "inf" \/ (c.bps_kind = "finite" /\ c.bps > 0)
C15_CostZeroMonotoneNonNegative ==
    Returned("cost") =>
        /\ call.model = "none" => call.ret[1] = Zero
        /\ (call.model = "bps" /\ PositiveBps(call) /\ InUnit(call.turnover)) =>
              /\ RLe(Zero, call.ret[1])
              /\ (call.turnover = Zero /\ ~call.is_initial) =>
                    call.ret[1] = Zero
              /\ ~call.is_initial =>
                    \A t \in TurnoverLevels :
                        (InUnit(t) /\ RLe(call.turnover, t)) =>
                            RLe(call.ret[1],
                                BpsCostModel_cost([call EXCEPT !.turnover = t]))

(* one side only, half the portfolio traded: 5 bps x 1/2 *)
C15_Witness ==
    /\ Returned("cost")
    /\ call.model = "bps"
    /\ call.bps_kind = "finite"
    /\ call.bps = 5
    /\ ~call.round_trip
    /\ ~call.is_initial
    /\ call.turnover = Rat(1, 2)
    /\ call.ret[1] = Rat(1, 4000)

(* C16: build_cost_model raises ValueError for every cost-model name that  *)
(* is none of none/zero/off/bps/bp/basis, whether the name is the name key *)
(* of a mapping or the configuration itself.                               *)
RecognizedCostNames == {"none", "zero", "off", "bps", "bp", "basis"}
C16_UnrecognizedCostNameRaises ==
    (/\ Returned("build_cost_model")
     /\ call.cost_cfg.name # None
     /\ lower_strip(call.cost_cfg.name[1]) \notin RecognizedCostNames)
        => call.ret[1].kind = "ValueError"

(* C16 for a mapping: an unrecognised name key raises ValueError.          *)
C16_MappingUnrecognizedRaises ==
    (/\ Returned("build_cost_model")
     /\ call.cost_cfg.form = "mapping"
     /\ call.cost_cfg.name # None
     /\ lower_strip(call.cost_cfg.name[1]) \notin RecognizedCostNames)
        => call.ret[1].kind = "ValueError"

(* C17: build_exit_policy raises ValueError when the price value it is     *)
(* given (under price, else under price_policy) is none of                 *)
(* strict/ffill/delay, or the fallback value (under fallback, else under   *)
(* fallback_policy) is none of ffill/none; and every ExitPolicy it returns *)
(* has a price_policy and a fallback_policy of those sets.                 *)
Given(a, b) == IF Truthy(a) THEN a ELSE IF Truthy(b) THEN b ELSE None
C18_LastDatePerPeriod ==
    (Returned("get_rebalance_dates") /\ call.freq \in {"W", "M"}) =>
        LET out == call.ret[1]
            calendar == Range(call.dates)
            InPeriod(g) == {d \in calendar : to_period(d, call.freq) = g}
        IN  /\ \A d \in calendar :
                  LET g == to_period(d, call.freq)
                  IN  /\ Cardinality({j \in 1..Len(out) :
                                         to_period(out[j], call.freq) = g}) = 1
                      /\ \E j \in 1..Len(out) :
                            /\ out[j] \in InPeriod(g)
                            /\ \A e \in InPeriod(g) : e <= out[j]
            /\ \A j \in 1..Len(out) : out[j] \in calendar
            /\ \A j \in 1..(Len(out) - 1) : out[j] < out[j + 1]

(* an unsorted calendar with a repeated date, two periods, one of them     *)
(* with several dates                                                      *)
C18_Witness ==
    /\ Returned("get_rebalance_dates")
    /\ call.freq = "M"
    /\ call.dates = <<4, 2, 3, 2>>
    /\ call.ret[1] = <<3, 4>>

(* C19: estimate_rebalance_gap returns the median of the calendar-position *)
(* differences of the consecutive rebalance-date pairs whose two dates are *)
(* in the trading calendar; the other pairs count for nothing.             *)
Position(c, d) == Cardinality({e \in Range(c.trade_dates) : e < d})
UsablePairs(c) ==
    {j \in 1..(Len(c.rebalance_dates) - 1) :
        /\ c.rebalance_dates[j] \in Range(c.trade_dates)
        /\ c.rebalance_dates[j + 1] \in Range(c.trade_dates)}
Distance(c, j) ==
    Position(c, c.rebalance_dates[j + 1]) - Position(c, c.rebalance_dates[j])
(* m is a median of the distances of the usable pairs *)
IsMedian(c, m) ==
    LET below == {j \in UsablePairs(c) : RLt(RInt(Distance(c, j)), m)}
        above == {j \in UsablePairs(c) : RLt(m, RInt(Distance(c, j)))}
        at == {j \in UsablePairs(c) : RInt(Distance(c, j)) = m}
    IN  IF at # {}
        THEN /\ 2 * Cardinality(below) <= Cardinality(UsablePairs(c))
             /\ 2 * Cardinality(above) <= Cardinality(UsablePairs(c))
        ELSE /\ Cardinality(below) = Cardinality(above)
             /\ \E lo \in below, hi \in above :
                   /\ \A j \in below : Distance(c, j) <= Distance(c, lo)
                   /\ \A j \in above : Distance(c, hi) <= Distance(c, j)
                   /\ m = Rat(Distance(c, lo) + Distance(c, hi), 2)
C20_NaNBelowTwoUsablePairs ==
    Returned("estimate_rebalance_gap") =>
        (call.ret[1] = nan <=> Cardinality(UsablePairs(call)) < 2)

(* C20 as the code has it: estimate_rebalance_gap returns NaN exactly when  *)
(* no consecutive rebalance-date pair is usable (in particular with fewer  *)
(* than two rebalance dates or fewer than two trade dates), and a number   *)
(* otherwise.                                                              *)
C20_NaNIffNoUsablePair ==
    Returned("estimate_rebalance_gap") =>
        /\ call.ret[1] = nan <=> UsablePairs(call) = {}
        /\ (Len(call.rebalance_dates) < 2 \/ Len(call.trade_dates) < 2) =>
              call.ret[1] = nan

(* at least two rebalance dates and two trade dates, no usable pair: NaN *)
C20_Witness ==
    /\ Returned("estimate_rebalance_gap")
    /\ Len(call.trade_dates) >= 2
    /\ Len(call.rebalance_dates) >= 3
    /\ \E j \in 1..Len(call.rebalance_dates) :
          call.rebalance_dates[j] \in Range(call.trade_dates)
    /\ UsablePairs(call) = {}
    /\ call.ret[1] = nan

(* C21: the exit prices of a period are those the ExitPolicy resolves from  *)
(* the planned exit index.  Under price policy ffill a selected instrument  *)
(* with an entry price and no price on the planned exit date, priced on an  *)
(* earlier trade date, stays in the period: the period is accepted, holds   *)
(* the instrument, and its gross return values every such instrument at     *)
(* its last price at or before the exit date.                               *)
FfillCall(p) ==
    [price_policy |-> "ffill", fallback_policy |-> "none",
     planned_exit_idx |-> p.exit_idx,
     price_table |->
         [r \in Rows |-> [s \in Instruments |->
             IF r < Len(trade_dates) THEN price_table(trade_dates[r + 1], s)
             ELSE NaN]],
     tradable_table |-> None]
FfillPrice(p, s) ==
    FfillCall(p).price_table[resolve_exit_idx(FfillCall(p), s)[1]][s]
FfillHoldings(j, p) ==
    {s \in Range(Selected(j)) :
        /\ notna(price_table(EntryDate(p), s))
        /\ resolve_exit_idx(FfillCall(p), s) # None}
C21_FfillKeepsUnpricedExit ==
    [][(/\ InLoop
        /\ Plan.kind = "period"
        /\ ~OutOfBounds(Plan)
        /\ ~EmptyDay(i)
        /\ \E s \in FfillHoldings(i, Plan) :
              ~notna(price_table(ExitDate(Plan), s)))
       => /\ Len(accepted') = Len(accepted) + 1
          /\ Last(accepted').holdings = FfillHoldings(i, Plan)
          /\ Last(gross_returns') =
                Gross(FfillHoldings(i, Plan),
                      EntryPrices(Plan, FfillHoldings(i, Plan)),
                      [s \in FfillHoldings(i, Plan) |-> FfillPrice(Plan, s)])
      ]_vars

C22_SpanWitness ==
    /\ pc = "done"
    /\ result = "stats"
    /\ Last(period_info).exit_idx - period_info[1].entry_idx <= 0
    /\ stats[1].ann_return = nan
    /\ stats[1].ann_vol # nan

(* C23: with ascending rebalance dates, in either exit mode, each accepted  *)
(* period enters no earlier than the accepted period before it exits, and   *)
(* the exit dates of the accepted periods are strictly increasing.          *)
Ascending(q) == \A j \in 1..(Len(q) - 1) : q[j] <= q[j + 1]
C23_AcceptedPeriodsDoNotOverlap ==
    Ascending(rebalance_dates) =>
        \A j \in 2..Len(period_info) :
            /\ period_info[j].entry_idx >= period_info[j - 1].exit_idx
            /\ period_info[j].exit_date > period_info[j - 1].exit_date

(* fixed-horizon exits: the second period enters on the date the first     *)
(* exits                                                                   *)
C23_Witness ==
    /\ exit_mode = "label_horizon"
    /\ Ascending(rebalance_dates)
    /\ pc = "done"
    /\ result = "stats"
    /\ Len(period_info) = 2
    /\ period_info[2].entry_idx = period_info[1].exit_idx

(* C24: with price_policy=delay and a planned index of the calendar, each   *)
(* instrument exits at the first position at or after the planned index     *)
(* where its price is finite and it is tradable; failing that, with         *)
(* fallback_policy=ffill, at the last such position at or before the        *)
(* planned index; failing that it is absent from the returned prices.       *)
(* Every returned price is finite and belongs to an instrument of the       *)
(* holdings.                                                                *)
FiniteTradable(c, s) ==
    {r \in Rows :
        /\ isfinite(c.price_table[r][s])
        /\ c.tradable_table = None \/ c.tradable_table[1][r][s]}
DelayExit(c, s) ==
    LET forward == {r \in FiniteTradable(c, s) : r >= c.planned_exit_idx}
        backward == {r \in FiniteTradable(c, s) : r <= c.planned_exit_idx}
    IN  IF forward # {} THEN Some(SetMin(forward))
        ELSE IF c.fallback_policy = "ffill" /\ backward # {}
        THEN Some(SetMax(backward))
        ELSE None
DelayPerInstrument(c) ==
    LET out == c.ret[1].exit_prices
    IN  /\ DOMAIN out \subseteq Range(c.holdings)
        /\ \A s \in DOMAIN out : isfinite(out[s])
        /\ \A s \in Range(c.holdings) :
              IF DelayExit(c, s) = None THEN s \notin DOMAIN out
              ELSE /\ s \in DOMAIN out
                   /\ out[s] = c.price_table[DelayExit(c, s)[1]][s]
C24_DelayExitPerInstrument ==
    (/\ Returned("resolve_exit_prices")
     /\ call.price_policy = "delay"
     /\ call.planned_exit_idx \in Rows)
        => DelayPerInstrument(call)

(* C24 on price tables whose every price is finite or missing.             *)
NoInfinitePrice(c) ==
    \A r \in Rows, s \in Instruments : c.price_table[r][s] # Inf
C24_DelayExitPerInstrumentFinite ==
    (/\ Returned("resolve_exit_prices")
     /\ call.price_policy = "delay"
     /\ call.planned_exit_idx \in Rows
     /\ NoInfinitePrice(call))
        => DelayPerInstrument(call)

(* delay with fallback ffill: A is not tradable from the planned position  *)
(* on and falls back to its earlier price, B exits later                   *)
C24_Witness ==
    /\ Returned("resolve_exit_prices")
    /\ call.price_policy = "delay"
    /\ call.fallback_policy = "ffill"
    /\ call.planned_exit_idx = 1
    /\ NoInfinitePrice(call)
    /\ call.holdings = <<"A", "B">>
    /\ DelayExit(call, "A") = Some(0)
    /\ DelayExit(call, "B") = Some(2)
    /\ call.ret[1].exit_prices =
          [s \in Instruments |->
              IF s = "A" THEN Quote(0, "A") ELSE Quote(2, "B")]

(* C25: the turnover of an accepted period after the first is one half of   *)
(* the L1 distance between the weights of the previous accepted period's    *)
(* holdings priced at the current entry date, each proportional to current  *)
(* entry price over previous entry price and summing to 1, and the weights  *)
(* 1/k of the current holdings, an absent instrument weighing 0; when no    *)
(* previous holding is priced at the current entry date it is               *)
(* 1 - |current /\ previous| / k.                                           *)
Survivors(j) ==
    {s \in accepted[j - 1].holdings :
        notna(price_table(period_info[j].entry_date, s))}
Growth(j, s) ==
    Rat(price_table(period_info[j].entry_date, s),
        price_table(period_info[j - 1].entry_date, s))
DriftWeight(j, s) ==
    IF s \in Survivors(j)
    THEN RDiv(Growth(j, s),
              RSum([t \in Survivors(j) |-> Growth(j, t)], Survivors(j)))
    ELSE Zero
TargetWeight(j, s) ==
    IF s \in accepted[j].holdings
    THEN Rat(1, Cardinality(accepted[j].holdings))
    ELSE Zero
HalfL1(j) ==
    RMul(Rat(1, 2),
         RSum([s \in Instruments |->
                  RAbs(RSub(DriftWeight(j, s), TargetWeight(j, s)))],
              Instruments))
C25_FallbackWitness ==
    /\ Len(accepted) >= 2
    /\ Survivors(2) = {}
    /\ turnovers[2] = One

(* C26: an iteration that reaches the price lookup accepts its period if    *)
(* and only if some selected instrument has a price on the entry date and   *)
(* on the exit date; the gross return is the mean of exit/entry - 1 over    *)
(* exactly those instruments, they are the holdings carried forward, and    *)
(* the other selected instruments are dropped from this period only.        *)
Surviving(j, p) ==
    {s \in Range(Selected(j)) :
        /\ notna(price_table(EntryDate(p), s))
        /\ notna(price_table(ExitDate(p), s))}
MeanReturn(p, S) ==
    RDiv(RSum([s \in S |-> RSub(Rat(price_table(ExitDate(p), s),
                                    price_table(EntryDate(p), s)), One)], S),
         RInt(Cardinality(S)))
C26_InvalidInstrumentDroppedOnly ==
    [][(InLoop /\ Plan.kind = "period" /\ ~OutOfBounds(Plan) /\ ~EmptyDay(i))
       => IF Surviving(i, Plan) = {}
          THEN UNCHANGED <<history, carry>> /\ pc' = "loop" /\ i' = i + 1
          ELSE /\ Len(period_info') = Len(period_info) + 1
               /\ Last(gross_returns') = MeanReturn(Plan, Surviving(i, Plan))
               /\ prev_holdings' = Some(Surviving(i, Plan))
               /\ DOMAIN prev_entry_prices'[1] = Surviving(i, Plan)
               /\ Last(accepted').holdings = Surviving(i, Plan)]_vars

(* B was selected with A at the first rebalance date and dropped for want  *)
(* of a price, and is held in the next period                              *)
C26_Witness ==
    /\ Len(accepted) = 2
    /\ Len(Selected(accepted[1].pos)) = 2
    /\ accepted[1].holdings = {"A"}
    /\ "B" \in accepted[2].holdings
    /\ prev_holdings = Some(accepted[2].holdings)

(* C27: estimate_turnover skips every rebalance date with fewer than k      *)
(* rows and remembers the holdings of the last date it did not skip; it     *)
(* emits nothing for the first qualifying date and, for every later one,    *)
(* at that date, 1 - |top k now /\ top k of the previous qualifying         *)
(* date| / k, which lies in [0, 1] and is 0 when the two sets are equal.    *)
(* The values emitted number the qualifying dates minus one.                *)
Qualifying(c) ==
    SelectSeq([j \in 1..Len(c.rebalance_dates) |-> j],
              LAMBDA j : Len(c.data[c.rebalance_dates[j]]) >= c.k)
TopOf(c, j) ==
    {c.data[c.rebalance_dates[j]][n] : n \in 1..c.k}
Expected(c, n) ==
    [date |-> c.rebalance_dates[Qualifying(c)[n]],
     value |-> RSub(One,
                    Rat(Cardinality(TopOf(c, Qualifying(c)[n])
                                    \cap TopOf(c, Qualifying(c)[n - 1])),
                        c.k))]
Count(q, x) == Cardinality({j \in 1..Len(q) : q[j] = x})
C27_TurnoverAgainstPreviousQualifying ==
    Returned("estimate_turnover") =>
        LET out == call.ret[1]
            q == Qualifying(call)
        IN  /\ Len(out) = IF q = <<>> THEN 0 ELSE Len(q) - 1
            /\ \A n \in 2..Len(q) :
                  /\ Count(out, Expected(call, n))
                        = Cardinality({t \in 2..Len(q) :
                              Expected(call, t) = Expected(call, n)})
                  /\ InUnit(Expected(call, n).value)
                  /\ TopOf(call, q[n]) = TopOf(call, q[n - 1])
                        => Expected(call, n).value = Zero
            /\ \A j \in 1..(Len(out) - 1) : out[j].date <= out[j + 1].date

(* k = 2, a date with one row between two dates that share one of their    *)
(* two best instruments                                                    *)
C27_Witness ==
    /\ Returned("estimate_turnover")
    /\ call.k = 2
    /\ call.rebalance_dates = <<1, 2, 3>>
    /\ call.data[1] = <<"A", "B", "C">>
    /\ call.data[2] = <<"A">>
    /\ call.data[3] = <<"B", "C", "A">>
    /\ call.ret[1] = <<[date |-> 3, value |-> Rat(1, 2)]>>

(* C28: every recorded period has 0 <= entry_idx < exit_idx <= N - 1, N     *)
(* the number of trade dates; its entry and exit dates are the calendar     *)
(* dates at those indices and its rebalance date is a trade date; so the    *)
(* average holding length of a returned result is at least 1.               *)
C28_PeriodIndicesWithinCalendar ==
    /\ \A j \in 1..Len(period_info) :
          /\ 0 <= period_info[j].entry_idx
          /\ period_info[j].entry_idx < period_info[j].exit_idx
          /\ period_info[j].exit_idx <= N - 1
          /\ period_info[j].entry_date
                = Calendar(data)[period_info[j].entry_idx + 1]
          /\ period_info[j].exit_date
                = Calendar(data)[period_info[j].exit_idx + 1]
          /\ period_info[j].rebalance_date \in Range(Calendar(data))
    /\ (pc = "done" /\ result = "stats") =>
          /\ avg_holding(period_info) # nan
          /\ RLe(One, avg_holding(period_info).value)
          /\ periods_per_year(period_info) # nan

(* shifted by one date: the period enters the day after its rebalance date *)
(* and exits on the last trade date                                        *)
C28_Witness ==
    /\ pc = "done"
    /\ result = "stats"
    /\ shift_days = 1
    /\ N = 3
    /\ Len(period_info) = 1
    /\ period_info[1].rebalance_date = Calendar(data)[1]
    /\ period_info[1].entry_idx = 1
    /\ period_info[1].exit_idx = N - 1
    /\ avg_holding(period_info) = float(One)

(* C29: in exit_mode=label_horizon the overlap test comes first: an         *)
(* iteration at a trade date whose entry index is below the exit index of   *)
(* the last accepted period ends the call in ValueError, whether or not     *)
(* its period would have been skipped for its bounds, an empty day or       *)
(* missing prices; and a skipped iteration leaves the exit index the test   *)
(* compares with unchanged, so it is always that of the last accepted       *)
(* period.                                                                  *)
OverlapsLastAccepted ==
    /\ exit_mode = "label_horizon"
    /\ InLoop
    /\ InCalendar(RebDate(i))
    /\ exit_horizon_days # None
    /\ period_info # <<>>
    /\ date_to_idx(RebDate(i)) + shift_days < Last(period_info).exit_idx
C29_OverlapTestPrecedesSkips ==
    [][/\ OverlapsLastAccepted =>
             /\ pc' = "done"
             /\ result' = "ValueError"
             /\ UNCHANGED <<history, carry>>
       /\ period_info' = period_info => prev_exit_idx' = prev_exit_idx
       /\ prev_exit_idx' = IF period_info' = <<>> THEN None
                           ELSE Some(Last(period_info').exit_idx)]_vars

(* the call raised at a date whose period would have ended beyond the      *)
(* calendar, after one accepted period and one skipped iteration           *)
C29_Witness ==
    /\ exit_mode = "label_horizon"
    /\ pc = "done"
    /\ result = "ValueError"
    /\ exit_horizon_days # None
    /\ Len(period_info) = 1
    /\ i = 2
    /\ accepted[1].pos = 0
    /\ date_to_idx(RebDate(i)) + shift_days < period_info[1].exit_idx
    /\ date_to_idx(RebDate(i)) + shift_days + exit_horizon_days[1] >= N

(* C30: in exit_mode=rebalance the two variants accept the same rebalance   *)
(* dates: list position by list position the earlier variant has recorded   *)
(* the periods the current variant recorded up to that position, with the   *)
(* same rebalance, entry and exit dates and indices and the same gross      *)
(* returns, and both return None or both return a result.                   *)
C30_VariantsAcceptSamePeriods ==
    (exit_mode = "rebalance" /\ pc = "done" /\ legacy_pc # "start") =>
        LET n == Len(legacy_period_info)
        IN  /\ n <= Len(period_info)
            /\ legacy_period_info = SubSeq(period_info, 1, n)
            /\ legacy_gross_returns = SubSeq(gross_returns, 1, n)
            /\ legacy_pc = "loop" =>
                  n = Cardinality({j \in 1..Len(accepted) :
                                      accepted[j].pos < legacy_i})
            /\ legacy_pc \in {"tail", "done"} => n = Len(period_info)
            /\ legacy_pc = "done" => legacy_result = result

(* both variants returned the same periods and differ in the turnover, the *)
(* cost and the net return of the first                                    *)
C30_Witness ==
    /\ exit_mode = "rebalance"
    /\ pc = "done"
    /\ legacy_pc = "done"
    /\ result = "stats"
    /\ legacy_result = "stats"
    /\ Len(period_info) >= 1
    /\ legacy_period_info = period_info
    /\ legacy_gross_returns = gross_returns
    /\ legacy_turnovers[1] = None
    /\ turnovers[1] = One
    /\ legacy_net_returns[1] # net_returns[1]

====
